---- MODULE Spec2Model ----
(***************************************************************************)
(* A model of the Sudoku engine of rybkr/sudoku: the Layout and Board      *)
(* packages, the jigsaw region-map generator, the solver and the puzzle    *)
(* generator.  Arrays are functions over 0..n-1 as in the Go source; bit   *)
(* masks are sets of bit positions.                                        *)
(***************************************************************************)
EXTENDS Integers, Sequences, FiniteSets, TLC

VARIABLES
    board,      \* the Board driven through its public API
    last,       \* the last API call made on board: operation, arguments, error, board before
    lay,        \* the NewLayout call under test: region map given, Layout and error returned
    heap,       \* the Boards a Solver and its caller hold, by address
    sol,        \* the Solver: its fields, the call in progress, the recursion stack of backtrack
    gen,        \* the Generator: its fields and the position of Generate in its loop
    jig         \* the jigsaw generator: the position of GenerateRegionMap and its locals

vars == <<board, last, lay, heap, sol, gen, jig>>

(***************************************************************************)
(* Program constants                                                       *)
(***************************************************************************)
EmptyCell == 0
InvalidCell == -1
CellCount == 81
\* 0b111111111
allNine == 0..8

Positions == 0..(CellCount - 1)
Units == 0..8
Digits == 1..9

(***************************************************************************)
(* Bit masks                                                               *)
(***************************************************************************)
\* A uint16 mask is the set of the positions of its 1 bits, bit 0 the lowest:
\* 0 is {}, 1 << n is {n}, and the operators of the source are those of sets.
NoBits == {}

\* a & b
BitAnd(a, b) == a \cap b

\* a | b
BitOr(a, b) == a \cup b

\* a &^ b
BitAndNot(a, b) == a \ b

\* 1 << n
Shl1(n) == {n}

\* mask & (1 << n) != 0
bitSet(mask, n) == n \in mask

\* bits.OnesCount
OnesCount(m) == Cardinality(m)

\* bits.TrailingZeros, for m # 0
TrailingZeros(m) == CHOOSE n \in m : \A k \in m : n <= k

(***************************************************************************)
(* Layout                                                                  *)
(***************************************************************************)
NilLayout == [Type |-> "nil"]

posToRow == [pos \in Positions |-> pos \div 9]
posToCol == [pos \in Positions |-> pos % 9]

\* A loop "for i := lo; i <= hi; i++ { body }" is an operator xLoop over the
\* operator x of its body: xLoop(ctx, acc, lo, hi) runs the iterations lo..hi
\* in ascending order.  ctx is what the loop reads and does not change, acc
\* what it changes; acc.done records that the loop was left (break, return,
\* loop condition false), and no iteration runs after it.  The range is
\* halved so that the evaluation stays shallow.

\* buildRegionToCells, first loop: acc = [done, err, RegionToCells, counts].
buildPlace(PosToRegion, acc, pos) ==
    LET r == PosToRegion[pos] IN
    IF r < 0 \/ r > 8 THEN [acc EXCEPT !.done = TRUE, !.err = "InvalidLayout"]
    ELSE IF acc.counts[r] >= 9 THEN [acc EXCEPT !.done = TRUE, !.err = "InvalidLayout"]
    ELSE [acc EXCEPT !.RegionToCells[r][acc.counts[r]] = pos,
                     !.counts[r] = @ + 1]

RECURSIVE buildPlaceLoop(_, _, _, _)
buildPlaceLoop(PosToRegion, acc, lo, hi) ==
    IF lo > hi \/ acc.done THEN acc
    ELSE IF lo = hi THEN buildPlace(PosToRegion, acc, lo)
    ELSE buildPlaceLoop(PosToRegion, buildPlaceLoop(PosToRegion, acc, lo, (lo + hi) \div 2),
                        (lo + hi) \div 2 + 1, hi)

\* buildRegionToCells, second loop.
buildCount(acc, r) ==
    IF acc.counts[r] # 9 THEN [acc EXCEPT !.done = TRUE, !.err = "InvalidLayout"]
    ELSE acc

RECURSIVE buildCountLoop(_, _, _)
buildCountLoop(acc, lo, hi) ==
    IF lo > hi \/ acc.done THEN acc
    ELSE IF lo = hi THEN buildCount(acc, lo)
    ELSE buildCountLoop(buildCountLoop(acc, lo, (lo + hi) \div 2),
                        (lo + hi) \div 2 + 1, hi)

buildRegionToCells(PosToRegion) ==
    buildCountLoop(buildPlaceLoop(PosToRegion,
                                  [done |-> FALSE,
                                   err |-> "nil",
                                   RegionToCells |-> [r \in Units |-> [i \in 0..8 |-> 0]],
                                   counts |-> [r \in Units |-> 0]],
                                  0, CellCount - 1),
                   0, 8)

\* A plausible slip in the boundary tests: the neighbour below is never valid.
layoutNeighborsNoDown(pos) ==
    LET row == pos \div 9
        col == pos % 9
    IN  (IF row > 0 THEN <<(row - 1) * 9 + col>> ELSE <<>>) \o
        (IF col > 0 THEN <<row * 9 + col - 1>> ELSE <<>>) \o
        (IF col < 8 THEN <<row * 9 + col + 1>> ELSE <<>>)

\* The in-bounds entries of validateContiguous's neighbors array, in its
\* order: up, down, left, right.
layoutNeighbors(pos) ==
    LET row == pos \div 9
        col == pos % 9
    IN  (IF row > 0 THEN <<(row - 1) * 9 + col>> ELSE <<>>) \o
        (IF row < 8 THEN <<(row + 1) * 9 + col>> ELSE <<>>) \o
        (IF col > 0 THEN <<row * 9 + col - 1>> ELSE <<>>) \o
        (IF col < 8 THEN <<row * 9 + col + 1>> ELSE <<>>)

\* The inner loop of the flood fill: st = [visited, queue, count].
RECURSIVE visitNeighbors(_, _, _, _)
visitNeighbors(inRegion, nbs, i, st) ==
    IF i > Len(nbs) THEN st
    ELSE LET nb == nbs[i] IN
         IF nb \in inRegion /\ nb \notin st.visited
         THEN visitNeighbors(inRegion, nbs, i + 1,
                             [visited |-> st.visited \cup {nb},
                              queue |-> Append(st.queue, nb),
                              count |-> st.count + 1])
         ELSE visitNeighbors(inRegion, nbs, i + 1, st)

\* The loop "for head < tail" of the flood fill; head counts from 1.
RECURSIVE floodFill(_, _, _)
floodFill(inRegion, head, st) ==
    IF head > Len(st.queue) THEN st.count
    ELSE floodFill(inRegion, head + 1,
                   visitNeighbors(inRegion, layoutNeighbors(st.queue[head]), 1, st))

validateContiguous(l, region) ==
    LET cells == l.RegionToCells[region]
        inRegion == {cells[i] : i \in 0..8}
        visitedCount == floodFill(inRegion, 1,
                                  [visited |-> {cells[0]},
                                   queue |-> <<cells[0]>>,
                                   count |-> 1])
    IN  IF visitedCount # 9 THEN "InvalidLayout" ELSE "nil"

Validate(l) ==
    IF \E r \in Units : validateContiguous(l, r) # "nil" THEN "InvalidLayout" ELSE "nil"

NewLayout(regionMap) ==
    LET built == buildRegionToCells(regionMap)
        l == [Type |-> "jigsaw",
              PosToRegion |-> regionMap,
              RegionToCells |-> built.RegionToCells]
    IN  IF built.err # "nil" THEN [l |-> NilLayout, err |-> built.err]
        ELSE IF Validate(l) # "nil" THEN [l |-> NilLayout, err |-> "InvalidLayout"]
        ELSE [l |-> l, err |-> "nil"]

\* The region map StandardLayout builds.
standardRegionMap == [pos \in Positions |-> 3 * (pos \div 27) + ((pos % 9) \div 3)]

StandardLayout == [NewLayout(standardRegionMap).l EXCEPT !.Type = "standard"]

\* Preset 0, "Zigzag", of the hand-crafted jigsaw region maps.
jigsawPreset0 ==
    LET t == << 0, 0, 0, 1, 1, 1, 2, 2, 2,
                0, 0, 1, 1, 1, 2, 2, 2, 2,
                0, 1, 1, 1, 3, 3, 3, 2, 2,
                0, 3, 3, 3, 3, 3, 3, 4, 4,
                0, 5, 5, 5, 6, 6, 6, 4, 4,
                0, 5, 5, 5, 6, 6, 6, 4, 4,
                7, 5, 5, 5, 6, 6, 6, 4, 4,
                7, 7, 7, 7, 8, 8, 8, 8, 4,
                7, 7, 7, 7, 8, 8, 8, 8, 8 >>
    IN  [pos \in Positions |-> t[pos + 1]]

(***************************************************************************)
(* Board                                                                   *)
(***************************************************************************)
New(layout) ==
    [cells |-> [pos \in Positions |-> EmptyCell],
     layout |-> IF layout = NilLayout THEN StandardLayout ELSE layout,
     rowMasks |-> [r \in Units |-> NoBits],
     colMasks |-> [c \in Units |-> NoBits],
     regionMasks |-> [g \in Units |-> NoBits],
     emptyCount |-> CellCount]

Clone(b) == b

\* The addresses of the Boards that are shared by reference: the Board a
\* caller holds, the Board the Solver allocates and the Board Clone allocates.
Addr == {"caller", "solver", "clone"}

\* A plausible slip in Clone: the receiver itself is returned, no copy is made.
cloneAlias(h, b) == [heap |-> h, clone |-> b]

\* Clone on the heap, b the address of the receiver: `clone := *b` copies the
\* cells, the masks and the count into a fresh Board, `&clone` is its address.
cloneAlloc(h, b) == [heap |-> [h EXCEPT !["clone"] = Clone(h[b])], clone |-> "clone"]

\* A plausible slip in isValidPosition: the lower bound is exclusive.
isValidPositionFromOne(pos) == pos > 0 /\ pos < CellCount

isValidPosition(pos) == pos >= 0 /\ pos < CellCount

validatePosition(pos) == IF ~isValidPosition(pos) THEN "ErrInvalidPosition" ELSE "nil"

isValidValue(num) == (num >= 1 /\ num <= 9) \/ num = EmptyCell

validateValue(val) == IF ~isValidValue(val) THEN "ErrInvalidValue" ELSE "nil"

\* A plausible slip in Clear: the cell and masks are reset, empty_count is not.
ClearKeepsCount(b, pos) ==
    IF validatePosition(pos) # "nil" THEN [b |-> b, err |-> "ErrInvalidPosition"]
    ELSE IF b.cells[pos] = EmptyCell THEN [b |-> b, err |-> "nil"]
    ELSE LET mask == Shl1(b.cells[pos] - 1) IN
         [b |-> [b EXCEPT !.cells[pos] = EmptyCell,
                          !.rowMasks[posToRow[pos]] = BitAndNot(@, mask),
                          !.colMasks[posToCol[pos]] = BitAndNot(@, mask),
                          !.regionMasks[b.layout.PosToRegion[pos]] = BitAndNot(@, mask)],
          err |-> "nil"]

Clear(b, pos) ==
    IF validatePosition(pos) # "nil" THEN [b |-> b, err |-> "ErrInvalidPosition"]
    ELSE LET val == b.cells[pos] IN
         IF val = EmptyCell THEN [b |-> b, err |-> "nil"]
         ELSE LET row == posToRow[pos]
                  col == posToCol[pos]
                  region == b.layout.PosToRegion[pos]
                  mask == Shl1(val - 1)
              IN  [b |-> [b EXCEPT !.cells[pos] = EmptyCell,
                                   !.rowMasks[row] = BitAndNot(@, mask),
                                   !.colMasks[col] = BitAndNot(@, mask),
                                   !.regionMasks[region] = BitAndNot(@, mask),
                                   !.emptyCount = @ + 1],
                   err |-> "nil"]

\* The part of Set after the cell has been emptied: the three mask checks
\* and the placement.
setChecked(b, pos, val) ==
    LET row == posToRow[pos]
        col == posToCol[pos]
        region == b.layout.PosToRegion[pos]
        mask == Shl1(val - 1)
    IN  IF BitAnd(b.rowMasks[row], mask) # NoBits THEN [b |-> b, err |-> "ErrIllegalMove"]
        ELSE IF BitAnd(b.colMasks[col], mask) # NoBits THEN [b |-> b, err |-> "ErrIllegalMove"]
        ELSE IF BitAnd(b.regionMasks[region], mask) # NoBits THEN [b |-> b, err |-> "ErrIllegalMove"]
        ELSE [b |-> [b EXCEPT !.cells[pos] = val,
                              !.rowMasks[row] = BitOr(@, mask),
                              !.colMasks[col] = BitOr(@, mask),
                              !.regionMasks[region] = BitOr(@, mask),
                              !.emptyCount = @ - 1],
              err |-> "nil"]

\* A plausible slip in Set: the digit already in the cell is not cleared first.
SetWithoutClear(b, pos, val) ==
    IF validatePosition(pos) # "nil" THEN [b |-> b, err |-> "ErrInvalidPosition"]
    ELSE IF validateValue(val) # "nil" THEN [b |-> b, err |-> "ErrInvalidValue"]
    ELSE IF val = EmptyCell THEN Clear(b, pos)
    ELSE setChecked(b, pos, val)

Set(b, pos, val) ==
    IF validatePosition(pos) # "nil" THEN [b |-> b, err |-> "ErrInvalidPosition"]
    ELSE IF validateValue(val) # "nil" THEN [b |-> b, err |-> "ErrInvalidValue"]
    ELSE IF val = EmptyCell THEN Clear(b, pos)
    ELSE setChecked(IF b.cells[pos] # EmptyCell THEN Clear(b, pos).b ELSE b, pos, val)

SetForce(b, pos, val) ==
    LET row == posToRow[pos]
        col == posToCol[pos]
        region == b.layout.PosToRegion[pos]
        mask == Shl1(val - 1)
    IN  [b EXCEPT !.cells[pos] = val,
                  !.rowMasks[row] = BitOr(@, mask),
                  !.colMasks[col] = BitOr(@, mask),
                  !.regionMasks[region] = BitOr(@, mask),
                  !.emptyCount = @ - 1]

Get(b, pos) == IF ~isValidPosition(pos) THEN InvalidCell ELSE b.cells[pos]

\* A plausible slip in GetCandidatesMask: the region mask is not taken out.
GetCandidatesMaskNoRegion(b, pos) ==
    IF ~isValidPosition(pos) THEN NoBits
    ELSE BitAndNot(BitAndNot(allNine, b.rowMasks[posToRow[pos]]),
                   b.colMasks[posToCol[pos]])

GetCandidatesMask(b, pos) ==
    IF ~isValidPosition(pos) THEN NoBits
    ELSE BitAndNot(BitAndNot(BitAndNot(allNine, b.rowMasks[posToRow[pos]]),
                             b.colMasks[posToCol[pos]]),
                   b.regionMasks[b.layout.PosToRegion[pos]])

GetCandidates(b, pos) ==
    LET mask == GetCandidatesMask(b, pos)
    IN  SelectSeq(<<1, 2, 3, 4, 5, 6, 7, 8, 9>>,
                  LAMBDA num : bitSet(mask, num - 1))

\* No Board: the nil that is returned beside an error.
NilBoard == [nil |-> TRUE]

\* A string is the sequence of its bytes.
dotChar == 46
zeroChar == 48
nineChar == 57

\* The body of the loop of NewFromString: acc = [done, b, err].
newFromStringChar(s, acc, pos) ==
    LET ch == s[pos + 1] IN
    IF ch = dotChar \/ ch = zeroChar THEN acc
    ELSE IF ch > zeroChar /\ ch <= nineChar
         THEN LET set == Set(acc.b, pos, ch - zeroChar)
              IN  IF set.err # "nil"
                  THEN [acc EXCEPT !.done = TRUE, !.b = NilBoard, !.err = "invalid board"]
                  ELSE [acc EXCEPT !.b = set.b]
         ELSE [acc EXCEPT !.done = TRUE, !.b = NilBoard, !.err = "invalid character"]

RECURSIVE newFromStringCharLoop(_, _, _, _)
newFromStringCharLoop(s, acc, lo, hi) ==
    IF lo > hi \/ acc.done THEN acc
    ELSE IF lo = hi THEN newFromStringChar(s, acc, lo)
    ELSE newFromStringCharLoop(s, newFromStringCharLoop(s, acc, lo, (lo + hi) \div 2),
                               (lo + hi) \div 2 + 1, hi)

NewFromString(s, layout) ==
    IF Len(s) # CellCount THEN [b |-> NilBoard, err |-> "string must be exactly 81 characters"]
    ELSE LET acc == newFromStringCharLoop(s, [done |-> FALSE, b |-> New(layout), err |-> "nil"],
                                          0, CellCount - 1)
         IN  [b |-> acc.b, err |-> acc.err]

\* A plausible slip in String: an empty cell is written as its digit 0.
StringZeros(b) == [i \in 1..CellCount |-> (zeroChar + b.cells[i - 1]) % 256]

\* String: one byte for each cell in the order of the positions.
String(b) ==
    [i \in 1..CellCount |->
        IF b.cells[i - 1] = EmptyCell THEN dotChar ELSE (zeroChar + b.cells[i - 1]) % 256]

EmptyCount(b) == b.emptyCount

ClueCount(b) == CellCount - b.emptyCount

RegionCells(b, region) == b.layout.RegionToCells[region]

\* A plausible slip in IsValid: the column check is left out of the test.
isValidCheckNoCol(b, acc, pos) ==
    LET val == Get(b, pos) IN
    IF val = EmptyCell THEN acc
    ELSE LET row == posToRow[pos]
             col == posToCol[pos]
             region == b.layout.PosToRegion[pos]
             mask == Shl1(val - 1)
         IN  IF \/ BitAnd(acc.row[row], mask) # NoBits
                \/ BitAnd(acc.region[region], mask) # NoBits
             THEN [acc EXCEPT !.done = TRUE, !.ok = FALSE]
             ELSE [acc EXCEPT !.row[row] = BitOr(@, mask),
                              !.col[col] = BitOr(@, mask),
                              !.region[region] = BitOr(@, mask)]

\* The body of IsValid's loop: acc = [done, ok, row, col, region], the
\* verdict and the three check arrays.
isValidCheck(b, acc, pos) ==
    LET val == Get(b, pos) IN
    IF val = EmptyCell THEN acc
    ELSE LET row == posToRow[pos]
             col == posToCol[pos]
             region == b.layout.PosToRegion[pos]
             mask == Shl1(val - 1)
         IN  IF \/ BitAnd(acc.row[row], mask) # NoBits
                \/ BitAnd(acc.col[col], mask) # NoBits
                \/ BitAnd(acc.region[region], mask) # NoBits
             THEN [acc EXCEPT !.done = TRUE, !.ok = FALSE]
             ELSE [acc EXCEPT !.row[row] = BitOr(@, mask),
                              !.col[col] = BitOr(@, mask),
                              !.region[region] = BitOr(@, mask)]

RECURSIVE isValidCheckLoop(_, _, _, _)
isValidCheckLoop(b, acc, lo, hi) ==
    IF lo > hi \/ acc.done THEN acc
    ELSE IF lo = hi THEN isValidCheck(b, acc, lo)
    ELSE isValidCheckLoop(b, isValidCheckLoop(b, acc, lo, (lo + hi) \div 2),
                          (lo + hi) \div 2 + 1, hi)

IsValid(b) ==
    isValidCheckLoop(b,
                     [done |-> FALSE,
                      ok |-> TRUE,
                      row |-> [r \in Units |-> NoBits],
                      col |-> [c \in Units |-> NoBits],
                      region |-> [g \in Units |-> NoBits]],
                     0, CellCount - 1).ok

(***************************************************************************)
(* The pseudo-random source                                                *)
(***************************************************************************)
\* rand.Rand is a deterministic stream fixed by its seed.  The stream is a
\* linear congruential one; a state of the source is the last number drawn.
RngMul == 75
RngInc == 74
RngMod == 65537

\* No source: the rng field of a Solver built without Randomize.
NoRng == -1

NewSource(seed) == seed % RngMod

\* rng.Intn(n): the number drawn and the source after the draw.
Intn(rng, n) ==
    LET next == (rng * RngMul + RngInc) % RngMod
    IN  [v |-> next % n, rng |-> next]

\* The swap of rng.Shuffle: seq[i] and seq[j] change places, the source moves on.
shuffleDrawn(acc, i, draw) ==
    [acc EXCEPT !.seq = [@ EXCEPT ![i + 1] = acc.seq[draw.v + 1],
                                  ![draw.v + 1] = acc.seq[i + 1]],
                !.rng = draw.rng]

\* The body of rng.Shuffle's loop "for i := n - 1; i > 0; i--", run for
\* k = n - i: acc = [done, seq, rng], seq counted from 1.
shuffleSwap(n, acc, k) == shuffleDrawn(acc, n - k, Intn(acc.rng, n - k + 1))

RECURSIVE shuffleSwapLoop(_, _, _, _)
shuffleSwapLoop(n, acc, lo, hi) ==
    IF lo > hi \/ acc.done THEN acc
    ELSE IF lo = hi THEN shuffleSwap(n, acc, lo)
    ELSE shuffleSwapLoop(n, shuffleSwapLoop(n, acc, lo, (lo + hi) \div 2),
                         (lo + hi) \div 2 + 1, hi)

\* rng.Shuffle(len(seq), swap of seq): [done, seq, rng], the shuffled seq and
\* the source after.
Shuffle(rng, seq) ==
    shuffleSwapLoop(Len(seq), [done |-> FALSE, seq |-> seq, rng |-> rng], 1, Len(seq) - 1)

\* What stands for Shuffle where the source does not shuffle.
Unshuffled(rng, seq) == [done |-> FALSE, seq |-> seq, rng |-> rng]

(***************************************************************************)
(* Solver                                                                  *)
(***************************************************************************)
MakePos(row, col) == row * 9 + col

\* applyNakedSingles's loop body placing the lowest candidate of a cell that
\* has two candidates as well.
nakedSingleOfTwo(acc, pos) ==
    IF Get(acc.b, pos) # EmptyCell THEN acc
    ELSE LET mask == GetCandidatesMask(acc.b, pos) IN
         IF mask = NoBits THEN [acc EXCEPT !.done = TRUE]
         ELSE IF OnesCount(mask) <= 2
              THEN [acc EXCEPT !.b = SetForce(@, pos, TrailingZeros(mask) + 1),
                               !.changed = TRUE]
              ELSE acc

\* The body of applyNakedSingles's loop: acc = [done, b, changed].
nakedSingle(acc, pos) ==
    IF Get(acc.b, pos) # EmptyCell THEN acc
    ELSE LET mask == GetCandidatesMask(acc.b, pos) IN
         IF mask = NoBits THEN [acc EXCEPT !.done = TRUE]
         ELSE IF OnesCount(mask) = 1
              THEN [acc EXCEPT !.b = SetForce(@, pos, TrailingZeros(mask) + 1),
                               !.changed = TRUE]
              ELSE acc

RECURSIVE nakedSingleLoop(_, _, _)
nakedSingleLoop(acc, lo, hi) ==
    IF lo > hi \/ acc.done THEN acc
    ELSE IF lo = hi THEN nakedSingle(acc, lo)
    ELSE nakedSingleLoop(nakedSingleLoop(acc, lo, (lo + hi) \div 2),
                         (lo + hi) \div 2 + 1, hi)

\* applyNakedSingles on Board b: [done, b, changed], the Board after and the
\* value returned.
applyNakedSingles(b) ==
    nakedSingleLoop([done |-> FALSE, b |-> b, changed |-> FALSE], 0, CellCount - 1)

\* The first loop of the three findHiddenSingles functions: for each value
\* the positions, in the order the unit's cells are visited, of the empty
\* cells that have the value among their candidates.
valuePossibilities(b, cells) ==
    LET candidatesAt(i) == IF Get(b, cells[i]) = EmptyCell
                           THEN GetCandidatesMask(b, cells[i]) ELSE NoBits
        masks == <<candidatesAt(0), candidatesAt(1), candidatesAt(2),
                   candidatesAt(3), candidatesAt(4), candidatesAt(5),
                   candidatesAt(6), candidatesAt(7), candidatesAt(8)>>
    IN  [val \in 1..9 |->
            LET idx == SelectSeq(<<0, 1, 2, 3, 4, 5, 6, 7, 8>>,
                                 LAMBDA i : bitSet(masks[i + 1], val - 1))
            IN  [k \in 1..Len(idx) |-> cells[idx[k]]]]

\* The body of their second loop: acc = [done, b, changed].
hiddenPlace(possibilities, acc, val) ==
    IF Len(possibilities[val]) = 1
    THEN [acc EXCEPT !.b = SetForce(@, possibilities[val][1], val), !.changed = TRUE]
    ELSE acc

RECURSIVE hiddenPlaceLoop(_, _, _, _)
hiddenPlaceLoop(possibilities, acc, lo, hi) ==
    IF lo > hi \/ acc.done THEN acc
    ELSE IF lo = hi THEN hiddenPlace(possibilities, acc, lo)
    ELSE hiddenPlaceLoop(possibilities, hiddenPlaceLoop(possibilities, acc, lo, (lo + hi) \div 2),
                         (lo + hi) \div 2 + 1, hi)

\* What the three functions share, both loops over the cells of one unit:
\* [done, b, changed], the Board after and the value returned.
findHiddenSingles(b, cells) ==
    hiddenPlaceLoop(valuePossibilities(b, cells),
                    [done |-> FALSE, b |-> b, changed |-> FALSE], 1, 9)

findHiddenSinglesInRow(b, row) ==
    findHiddenSingles(b, [col \in 0..8 |-> MakePos(row, col)])

findHiddenSinglesInCol(b, col) ==
    findHiddenSingles(b, [row \in 0..8 |-> MakePos(row, col)])

findHiddenSinglesInRegion(b, region) ==
    findHiddenSingles(b, RegionCells(b, region))

\* changed = found || changed
orChanged(found, changed) == [found EXCEPT !.changed = @ \/ changed]

\* The bodies of applyHiddenSingles's three loops: acc = [done, b, changed].
hiddenRow(acc, row) == orChanged(findHiddenSinglesInRow(acc.b, row), acc.changed)

hiddenCol(acc, col) == orChanged(findHiddenSinglesInCol(acc.b, col), acc.changed)

hiddenRegion(acc, region) == orChanged(findHiddenSinglesInRegion(acc.b, region), acc.changed)

RECURSIVE hiddenRowLoop(_, _, _)
hiddenRowLoop(acc, lo, hi) ==
    IF lo > hi \/ acc.done THEN acc
    ELSE IF lo = hi THEN hiddenRow(acc, lo)
    ELSE hiddenRowLoop(hiddenRowLoop(acc, lo, (lo + hi) \div 2),
                       (lo + hi) \div 2 + 1, hi)

RECURSIVE hiddenColLoop(_, _, _)
hiddenColLoop(acc, lo, hi) ==
    IF lo > hi \/ acc.done THEN acc
    ELSE IF lo = hi THEN hiddenCol(acc, lo)
    ELSE hiddenColLoop(hiddenColLoop(acc, lo, (lo + hi) \div 2),
                       (lo + hi) \div 2 + 1, hi)

RECURSIVE hiddenRegionLoop(_, _, _)
hiddenRegionLoop(acc, lo, hi) ==
    IF lo > hi \/ acc.done THEN acc
    ELSE IF lo = hi THEN hiddenRegion(acc, lo)
    ELSE hiddenRegionLoop(hiddenRegionLoop(acc, lo, (lo + hi) \div 2),
                          (lo + hi) \div 2 + 1, hi)

\* applyHiddenSingles on Board b: [done, b, changed].
applyHiddenSingles(b) ==
    hiddenRegionLoop(
        hiddenColLoop(
            hiddenRowLoop([done |-> FALSE, b |-> b, changed |-> FALSE], 0, 8),
            0, 8),
        0, 8)

hasContradiction(b) ==
    \E pos \in Positions : Get(b, pos) = EmptyCell /\ GetCandidatesMask(b, pos) = NoBits

\* One turn of PropagateConstraints's loop, acc = [done, b, changed, err], in
\* three parts: the contradiction check after both rules, the hidden singles
\* after the naked ones, and the turn; the loop is left when changed is false.
propagateCheck(nakedChanged, hidden) ==
    IF hasContradiction(hidden.b)
    THEN [done |-> TRUE, b |-> hidden.b, changed |-> TRUE, err |-> "ErrNoSolution"]
    ELSE [done |-> FALSE, b |-> hidden.b,
          changed |-> nakedChanged \/ hidden.changed, err |-> "nil"]

propagateHidden(naked) == propagateCheck(naked.changed, applyHiddenSingles(naked.b))

\* PropagateConstraints's loop body leaving the loop after its first turn.
propagatePassOnce(acc, iterations) ==
    IF ~acc.changed \/ iterations > 1 THEN [acc EXCEPT !.done = TRUE]
    ELSE propagateHidden(applyNakedSingles(acc.b))

propagatePass(acc, iterations) ==
    IF ~acc.changed THEN [acc EXCEPT !.done = TRUE]
    ELSE propagateHidden(applyNakedSingles(acc.b))

RECURSIVE propagatePassLoop(_, _, _)
propagatePassLoop(acc, lo, hi) ==
    IF lo > hi \/ acc.done THEN acc
    ELSE IF lo = hi THEN propagatePass(acc, lo)
    ELSE propagatePassLoop(propagatePassLoop(acc, lo, (lo + hi) \div 2),
                           (lo + hi) \div 2 + 1, hi)

\* PropagateConstraints on Board b: [done, b, changed, err], the Board after
\* and the error returned.
PropagateConstraints(b) ==
    propagatePassLoop([done |-> FALSE, b |-> b, changed |-> TRUE, err |-> "nil"],
                      1, CellCount * CellCount)

\* FindMRVCell's loop body without the break at a count of at most one.
mrvCellNoBreak(b, acc, pos) ==
    IF Get(b, pos) # EmptyCell THEN acc
    ELSE LET candidates == GetCandidates(b, pos)
             count == Len(candidates)
         IN  IF count < acc.mrvCount
             THEN [done |-> FALSE, mrvPos |-> pos, mrvCount |-> count,
                   mrvCandidates |-> candidates]
             ELSE acc

\* The body of FindMRVCell's loop: acc = [done, mrvPos, mrvCount, mrvCandidates].
mrvCell(b, acc, pos) ==
    IF Get(b, pos) # EmptyCell THEN acc
    ELSE LET candidates == GetCandidates(b, pos)
             count == Len(candidates)
         IN  IF count < acc.mrvCount
             THEN [done |-> count <= 1, mrvPos |-> pos, mrvCount |-> count,
                   mrvCandidates |-> candidates]
             ELSE acc

RECURSIVE mrvCellLoop(_, _, _, _)
mrvCellLoop(b, acc, lo, hi) ==
    IF lo > hi \/ acc.done THEN acc
    ELSE IF lo = hi THEN mrvCell(b, acc, lo)
    ELSE mrvCellLoop(b, mrvCellLoop(b, acc, lo, (lo + hi) \div 2),
                     (lo + hi) \div 2 + 1, hi)

\* FindMRVCell on Board b: mrvPos and mrvCandidates are the values returned.
FindMRVCell(b) ==
    mrvCellLoop(b, [done |-> FALSE, mrvPos |-> -1, mrvCount |-> 10, mrvCandidates |-> <<>>],
                0, CellCount - 1)

\* The inner loop of fillThreeBoxes: ctx = [nums, boxRow, boxCol], acc = [done, b].
fillCell(ctx, acc, j) ==
    [acc EXCEPT !.b = SetForce(@, (ctx.boxRow + (j \div 3)) * 9 + (ctx.boxCol + (j % 3)),
                               ctx.nums[j + 1])]

RECURSIVE fillCellLoop(_, _, _, _)
fillCellLoop(ctx, acc, lo, hi) ==
    IF lo > hi \/ acc.done THEN acc
    ELSE IF lo = hi THEN fillCell(ctx, acc, lo)
    ELSE fillCellLoop(ctx, fillCellLoop(ctx, acc, lo, (lo + hi) \div 2),
                      (lo + hi) \div 2 + 1, hi)

\* The outer loop: ctx = [boxColumns, randomize], acc = [done, b, rng, nums];
\* nums is what the shuffle of this turn, sh, has made of it.
fillBoxCells(ctx, acc, i, sh) ==
    [done |-> FALSE,
     b |-> fillCellLoop([nums |-> sh.seq, boxRow |-> 3 * i, boxCol |-> ctx.boxColumns[i + 1]],
                        [done |-> FALSE, b |-> acc.b], 0, 8).b,
     rng |-> sh.rng,
     nums |-> sh.seq]

fillBox(ctx, acc, i) ==
    fillBoxCells(ctx, acc, i,
                 IF ctx.randomize THEN Shuffle(acc.rng, acc.nums)
                 ELSE Unshuffled(acc.rng, acc.nums))

RECURSIVE fillBoxLoop(_, _, _, _)
fillBoxLoop(ctx, acc, lo, hi) ==
    IF lo > hi \/ acc.done THEN acc
    ELSE IF lo = hi THEN fillBox(ctx, acc, lo)
    ELSE fillBoxLoop(ctx, fillBoxLoop(ctx, acc, lo, (lo + hi) \div 2),
                     (lo + hi) \div 2 + 1, hi)

\* fillThreeBoxes after boxColumns has been shuffled into cols.
fillBoxes(b, randomize, cols) ==
    fillBoxLoop([boxColumns |-> cols.seq, randomize |-> randomize],
                [done |-> FALSE, b |-> b, rng |-> cols.rng,
                 nums |-> <<1, 2, 3, 4, 5, 6, 7, 8, 9>>],
                0, 2)

\* fillThreeBoxes on Board b of a Solver with these options and rng:
\* [done, b, rng, nums], the Board and the rng after.
fillThreeBoxes(b, options, rng) ==
    fillBoxes(b, options.Randomize /\ rng # NoRng,
              IF options.Randomize /\ rng # NoRng THEN Shuffle(rng, <<0, 3, 6>>)
              ELSE Unshuffled(rng, <<0, 3, 6>>))

\* traceDifficulty on Board b: [done, b, score], the Board after and the
\* score.  difficultyTry is the body of its loop over the candidates:
\* ctx = [cell, candidates], acc = [done, b, score], sub what the recursive
\* call returned.
RECURSIVE traceDifficulty(_)
\* A plausible slip in traceDifficulty: the cell is not cleared after a try.
difficultyTriedKeepsCell(ctx, acc, sub) ==
    [acc EXCEPT !.b = sub.b, !.score = @ + 1 + sub.score]

difficultyTried(ctx, acc, sub) ==
    [acc EXCEPT !.b = Clear(sub.b, ctx.cell).b, !.score = @ + 1 + sub.score]

difficultyTry(ctx, acc, k) ==
    difficultyTried(ctx, acc, traceDifficulty(SetForce(acc.b, ctx.cell, ctx.candidates[k])))

RECURSIVE difficultyTryLoop(_, _, _, _)
difficultyTryLoop(ctx, acc, lo, hi) ==
    IF lo > hi \/ acc.done THEN acc
    ELSE IF lo = hi THEN difficultyTry(ctx, acc, lo)
    ELSE difficultyTryLoop(ctx, difficultyTryLoop(ctx, acc, lo, (lo + hi) \div 2),
                           (lo + hi) \div 2 + 1, hi)

traceCandidates(b, mrv) ==
    IF Len(mrv.mrvCandidates) = 0 THEN [done |-> FALSE, b |-> b, score |-> 0]
    ELSE difficultyTryLoop([cell |-> mrv.mrvPos, candidates |-> mrv.mrvCandidates],
                           [done |-> FALSE, b |-> b, score |-> 0],
                           1, Len(mrv.mrvCandidates))

traceDifficulty(b) ==
    IF EmptyCount(b) = 0 THEN [done |-> FALSE, b |-> b, score |-> 0]
    ELSE traceCandidates(b, FindMRVCell(b))

\* Options of the solver package.
NilOptions == [nil |-> TRUE]

DefaultOptions == [MaxSolutions |-> 1, Randomize |-> FALSE, Timeout |-> 0]

\* A Solver sharing the caller's Board instead of owning a clone of it.
NewSolverShared(h, b, options, clock) ==
    LET opts == IF options = NilOptions THEN DefaultOptions ELSE options
    IN  [heap |-> h,
         s |-> [Board |-> b,
                options |-> opts,
                rng |-> IF opts.Randomize THEN NewSource(clock) ELSE NoRng]]

\* solver.New(b, options) with the Boards at the addresses of h, b the address
\* of the caller's Board and clock the value of time.Now().UnixNano(): the
\* Boards after the call and the fields of the Solver.
NewSolver(h, b, options, clock) ==
    LET opts == IF options = NilOptions THEN DefaultOptions ELSE options
    IN  [heap |-> [h EXCEPT !["solver"] = Clone(h[b])],
         s |-> [Board |-> "solver",
                options |-> opts,
                rng |-> IF opts.Randomize THEN NewSource(clock) ELSE NoRng]]

\* makeContext: no deadline when Timeout is 0, else a context that the clock
\* may cancel.
makeContext(options) == IF options.Timeout = 0 THEN "background" ELSE "live"

\* A run of Solve is a record s = [pc, options, rng, ctx, stack, ret, err]
\* beside the Solver's Board b.  pc is "begin" before Solve has run,
\* "backtrack" at the entry of a call of backtrack, "return" when a call of
\* backtrack has returned ret to its caller, "done" when Solve has returned
\* err.  stack holds, for each call of backtrack that is inside its loop, pos,
\* candidates and the index i of the candidate being tried.  A step gives
\* [s, b], the run and the Board after it.

\* Solve returns err.
solveReturns(s, b, err) == [s |-> [s EXCEPT !.pc = "done", !.err = err], b |-> b]

\* backtrack returns ret.
backtrackReturns(s, b, ret) == [s |-> [s EXCEPT !.pc = "return", !.ret = ret], b |-> b]

\* PropagateConstraints, called by the caller, returns with the result p.
propagateReturns(s, p) == solveReturns(s, p.b, p.err)

\* Solve from the result p of its PropagateConstraints to its call of backtrack.
solvePropagated(s, p) ==
    IF p.err # "nil" THEN solveReturns(s, p.b, p.err)
    ELSE IF EmptyCount(p.b) = 0 THEN solveReturns(s, p.b, "nil")
    ELSE [s |-> [s EXCEPT !.pc = "backtrack", !.ctx = makeContext(s.options)], b |-> p.b]

\* Solve after fillThreeBoxes, if called, has left Board and rng filled.
solveFilled(s, filled) ==
    solvePropagated([s EXCEPT !.rng = filled.rng], PropagateConstraints(filled.b))

\* A plausible slip in Solve: the Board is seeded whatever its layout.
solveSeededAnyLayout(s, b) ==
    IF EmptyCount(b) = CellCount
    THEN fillThreeBoxes(b, s.options, s.rng)
    ELSE [b |-> b, rng |-> s.rng]

\* Solve's seeding of a valid Board b: the Board and the rng after.
solveSeeded(s, b) ==
    IF EmptyCount(b) = CellCount /\ b.layout.Type = "standard"
    THEN fillThreeBoxes(b, s.options, s.rng)
    ELSE [b |-> b, rng |-> s.rng]

\* Solve up to its call of backtrack.
solveBegin(s, b) ==
    IF ~IsValid(b) THEN solveReturns(s, b, "ErrInvalidPuzzle")
    ELSE solveFilled(s, solveSeeded(s, b))

\* backtrack from the shuffle sh of its candidates to its first recursive call.
backtrackFirst(s, b, pos, sh) ==
    [s |-> [s EXCEPT !.rng = sh.rng,
                     !.stack = Append(@, [pos |-> pos, candidates |-> sh.seq, i |-> 1])],
     b |-> SetForce(b, pos, sh.seq[1])]

\* backtrack from the result mrv of FindMRVCell.
backtrackChoose(s, b, mrv) ==
    IF Len(mrv.mrvCandidates) = 0 THEN backtrackReturns(s, b, FALSE)
    ELSE backtrackFirst(s, b, mrv.mrvPos,
                        IF s.options.Randomize /\ s.rng # NoRng
                        THEN Shuffle(s.rng, mrv.mrvCandidates)
                        ELSE Unshuffled(s.rng, mrv.mrvCandidates))

\* backtrack from the result p of its PropagateConstraints.
backtrackPropagated(s, p) ==
    IF p.err # "nil" THEN backtrackReturns(s, p.b, FALSE)
    ELSE IF EmptyCount(p.b) = 0 THEN backtrackReturns(s, p.b, TRUE)
    ELSE backtrackChoose(s, p.b, FindMRVCell(p.b))

\* backtrack from its entry to its return or to its first recursive call.
backtrackEnter(s, b) ==
    IF s.ctx = "done" THEN backtrackReturns(s, b, FALSE)
    ELSE backtrackPropagated(s, PropagateConstraints(b))

\* A plausible slip in backtrack's loop: the candidate that failed is tried
\* again.
backtrackNextSame(s, f, cleared) ==
    IF f.i <= Len(f.candidates)
    THEN [s |-> [s EXCEPT !.pc = "backtrack"],
          b |-> SetForce(cleared, f.pos, f.candidates[f.i])]
    ELSE [s |-> [s EXCEPT !.stack = SubSeq(@, 1, Len(@) - 1)], b |-> cleared]

\* The loop of backtrack after a recursive call has returned false: f is the
\* frame of the loop, cleared the Board after Clear(pos).
backtrackNext(s, f, cleared) ==
    IF f.i < Len(f.candidates)
    THEN [s |-> [s EXCEPT !.pc = "backtrack", !.stack[Len(s.stack)].i = f.i + 1],
          b |-> SetForce(cleared, f.pos, f.candidates[f.i + 1])]
    ELSE [s |-> [s EXCEPT !.stack = SubSeq(@, 1, Len(@) - 1)], b |-> cleared]

\* From the return of a call of backtrack: in the caller's loop to the next
\* recursive call or to the caller's own return, or, returning to Solve, to
\* the return of Solve.
backtrackReturn(s, b) ==
    IF s.stack = <<>> THEN solveReturns(s, b, IF s.ret THEN "nil" ELSE "ErrNoSolution")
    ELSE IF s.ret THEN [s |-> [s EXCEPT !.stack = SubSeq(@, 1, Len(@) - 1)], b |-> b]
    ELSE backtrackNext(s, s.stack[Len(s.stack)], Clear(b, s.stack[Len(s.stack)].pos).b)

\* Difficulty(b), b the address of the caller's Board: the Boards after the
\* call and the score.
difficultyTraced(h, at, t) == [heap |-> [h EXCEPT ![at] = t.b], score |-> t.score]

difficultyOf(n) == difficultyTraced(n.heap, n.s.Board, traceDifficulty(n.heap[n.s.Board]))

Difficulty(h, b) == difficultyOf(NewSolver(h, b, NilOptions, 0))

\* A Board as a caller builds it: the digits of cells, an array of 81 with 0
\* for an empty cell, placed in order of position on a new Board.  The body
\* of the loop is placeGiven: acc = [done, b].
placeGiven(cells, acc, pos) ==
    IF cells[pos + 1] = EmptyCell THEN acc
    ELSE [acc EXCEPT !.b = SetForce(@, pos, cells[pos + 1])]

RECURSIVE placeGivenLoop(_, _, _, _)
placeGivenLoop(cells, acc, lo, hi) ==
    IF lo > hi \/ acc.done THEN acc
    ELSE IF lo = hi THEN placeGiven(cells, acc, lo)
    ELSE placeGivenLoop(cells, placeGivenLoop(cells, acc, lo, (lo + hi) \div 2),
                        (lo + hi) \div 2 + 1, hi)

BoardOf(layout, cells) ==
    placeGivenLoop(cells, [done |-> FALSE, b |-> New(layout)], 0, CellCount - 1).b

(***************************************************************************)
(* Jigsaw region-map generator                                             *)
(***************************************************************************)
gridSize == 9
regionSize == 9
totalCells == 81
maxRetries == 200
maxIter == totalCells * 10

orthogonalNeighbors(pos) ==
    LET row == pos \div gridSize
        col == pos % gridSize
    IN  (IF row > 0 THEN <<(row - 1) * gridSize + col>> ELSE <<>>)
        \o (IF row < gridSize - 1 THEN <<(row + 1) * gridSize + col>> ELSE <<>>)
        \o (IF col > 0 THEN <<(row * gridSize + col) - 1>> ELSE <<>>)
        \o (IF col < gridSize - 1 THEN <<(row * gridSize + col) + 1>> ELSE <<>>)

\* shuffledBoxCells: [done, seq, rng], the cells of the box in random order
\* and the source after.  Its Fisher-Yates loop is the loop of Shuffle.
shuffledBoxCells(rng, boxRow, boxCol) ==
    Shuffle(rng, [i \in 1..regionSize |->
                    (boxRow * 3 + ((i - 1) \div 3)) * gridSize + (boxCol * 3 + ((i - 1) % 3))])

\* The body of chooseSeedCells's two loops, seedIdx = 3 * boxRow + boxCol:
\* acc = [done, seeds, rng], seeds counted from 1.
seedChosen(acc, cells) == [acc EXCEPT !.seeds = Append(@, cells.seq[1]), !.rng = cells.rng]

chooseSeed(acc, seedIdx) ==
    seedChosen(acc, shuffledBoxCells(acc.rng, seedIdx \div 3, seedIdx % 3))

RECURSIVE chooseSeedLoop(_, _, _)
chooseSeedLoop(acc, lo, hi) ==
    IF lo > hi \/ acc.done THEN acc
    ELSE IF lo = hi THEN chooseSeed(acc, lo)
    ELSE chooseSeedLoop(chooseSeedLoop(acc, lo, (lo + hi) \div 2),
                        (lo + hi) \div 2 + 1, hi)

chooseSeedCells(rng) ==
    chooseSeedLoop([done |-> FALSE, seeds |-> <<>>, rng |-> rng], 0, gridSize - 1)

\* tryGenerate, the loop over the seeds: acc = [done, assigned, queue].
seedPlace(seeds, acc, r) ==
    [acc EXCEPT !.assigned[seeds[r + 1]] = r,
                !.queue = Append(@, [pos |-> seeds[r + 1], region |-> r])]

RECURSIVE seedPlaceLoop(_, _, _, _)
seedPlaceLoop(seeds, acc, lo, hi) ==
    IF lo > hi \/ acc.done THEN acc
    ELSE IF lo = hi THEN seedPlace(seeds, acc, lo)
    ELSE seedPlaceLoop(seeds, seedPlaceLoop(seeds, acc, lo, (lo + hi) \div 2),
                       (lo + hi) \div 2 + 1, hi)

\* tryGenerate, the loop over the neighbors of queue entry e:
\* acc = [done, assigned, queue].
\* A plausible slip in the BFS: a neighbor is taken whether or not it has a
\* region already.
expandNeighborAssigned(ctx, acc, k) ==
    [acc EXCEPT !.assigned[ctx.nbs[k]] = ctx.e.region,
                !.queue = Append(@, [pos |-> ctx.nbs[k], region |-> ctx.e.region])]

expandNeighbor(ctx, acc, k) ==
    IF acc.assigned[ctx.nbs[k]] = -1
    THEN [acc EXCEPT !.assigned[ctx.nbs[k]] = ctx.e.region,
                     !.queue = Append(@, [pos |-> ctx.nbs[k], region |-> ctx.e.region])]
    ELSE acc

RECURSIVE expandNeighborLoop(_, _, _, _)
expandNeighborLoop(ctx, acc, lo, hi) ==
    IF lo > hi \/ acc.done THEN acc
    ELSE IF lo = hi THEN expandNeighbor(ctx, acc, lo)
    ELSE expandNeighborLoop(ctx, expandNeighborLoop(ctx, acc, lo, (lo + hi) \div 2),
                            (lo + hi) \div 2 + 1, hi)

expandFrom(acc, e, nbs) == expandNeighborLoop([e |-> e, nbs |-> nbs], acc, 1, Len(nbs))

\* tryGenerate, the loop "for head < levelEnd", run for head = h.
expandEntry(acc, h) ==
    expandFrom(acc, acc.queue[h + 1], orthogonalNeighbors(acc.queue[h + 1].pos))

RECURSIVE expandEntryLoop(_, _, _)
expandEntryLoop(acc, lo, hi) ==
    IF lo > hi \/ acc.done THEN acc
    ELSE IF lo = hi THEN expandEntry(acc, lo)
    ELSE expandEntryLoop(expandEntryLoop(acc, lo, (lo + hi) \div 2),
                         (lo + hi) \div 2 + 1, hi)

\* A run of GenerateRegionMap is a record j = [pc, rng, retries, assigned,
\* queue, head, regionSizes, iter, regionMap, err].  pc is "try" at the top of
\* the loop of GenerateRegionMap, "bfs" at the top of the loop "for head <
\* len(queue)" of tryGenerate, "balance" at the top of the loop of
\* balanceRegions, "map" when GenerateRegionMap has returned regionMap,
\* "done" when RandomJigsawLayout has returned, "panic" after a panic.
NoAssigned == [p \in 0..(totalCells - 1) |-> -1]

NoSizes == [r \in 0..(gridSize - 1) |-> 0]

\* tryGenerate up to its BFS loop, chosen what chooseSeedCells returned.
trySeeded(j, rng, placed) ==
    [j EXCEPT !.pc = "bfs", !.rng = rng, !.assigned = placed.assigned,
              !.queue = placed.queue, !.head = 0]

tryChosen(j, chosen) ==
    trySeeded(j, chosen.rng,
              seedPlaceLoop(chosen.seeds,
                            [done |-> FALSE, assigned |-> NoAssigned, queue |-> <<>>],
                            0, gridSize - 1))

\* GenerateRegionMap at the top of its loop: a call of tryGenerate, or the
\* panic when the retries are used up.
tryGenerate(j) ==
    IF j.retries >= maxRetries THEN [j EXCEPT !.pc = "panic", !.err = "exceeded max retries"]
    ELSE tryChosen(j, chooseSeedCells(j.rng))

\* One level of the BFS: the entries from head to the end of the queue are
\* shuffled into sh and expanded in that order.
levelExpanded(j, levelEnd, rng, acc) ==
    [j EXCEPT !.rng = rng, !.assigned = acc.assigned, !.queue = acc.queue, !.head = levelEnd]

levelShuffled(j, levelEnd, sh) ==
    levelExpanded(j, levelEnd, sh.rng,
                  expandEntryLoop([done |-> FALSE,
                                   assigned |-> j.assigned,
                                   queue |-> SubSeq(j.queue, 1, j.head) \o sh.seq],
                                  j.head, levelEnd - 1))

bfsLevel(j) ==
    levelShuffled(j, Len(j.queue), Shuffle(j.rng, SubSeq(j.queue, j.head + 1, Len(j.queue))))

\* tryGenerate from the end of the BFS to the call of balanceRegions.
bfsEnd(j) ==
    [j EXCEPT !.pc = "balance",
              !.regionSizes = [r \in 0..(gridSize - 1) |->
                                  Cardinality({p \in 0..(totalCells - 1) : j.assigned[p] = r})],
              !.iter = 0]

\* isContiguousAfterRemoval, the loop over the neighbors of p:
\* acc = [done, visited, bfsQueue, head, count].
bfsVisit(ctx, acc, k) ==
    IF ctx.nbs[k] \in ctx.inRegion /\ ctx.nbs[k] \notin acc.visited
    THEN [acc EXCEPT !.visited = @ \cup {ctx.nbs[k]},
                     !.bfsQueue = Append(@, ctx.nbs[k]),
                     !.count = @ + 1]
    ELSE acc

RECURSIVE bfsVisitLoop(_, _, _, _)
bfsVisitLoop(ctx, acc, lo, hi) ==
    IF lo > hi \/ acc.done THEN acc
    ELSE IF lo = hi THEN bfsVisit(ctx, acc, lo)
    ELSE bfsVisitLoop(ctx, bfsVisitLoop(ctx, acc, lo, (lo + hi) \div 2),
                      (lo + hi) \div 2 + 1, hi)

bfsVisitFrom(inRegion, acc, nbs) ==
    bfsVisitLoop([inRegion |-> inRegion, nbs |-> nbs], acc, 1, Len(nbs))

\* One turn of its loop "for head < tail".
bfsStep(inRegion, acc, turn) ==
    IF acc.head >= Len(acc.bfsQueue) THEN [acc EXCEPT !.done = TRUE]
    ELSE bfsVisitFrom(inRegion, [acc EXCEPT !.head = @ + 1],
                      orthogonalNeighbors(acc.bfsQueue[acc.head + 1]))

RECURSIVE bfsStepLoop(_, _, _, _)
bfsStepLoop(inRegion, acc, lo, hi) ==
    IF lo > hi \/ acc.done THEN acc
    ELSE IF lo = hi THEN bfsStep(inRegion, acc, lo)
    ELSE bfsStepLoop(inRegion, bfsStepLoop(inRegion, acc, lo, (lo + hi) \div 2),
                     (lo + hi) \div 2 + 1, hi)

\* isContiguousAfterRemoval after the cells of the region without pos have
\* been collected, in order of position.
contiguousCells(cells) ==
    IF Len(cells) = 0 THEN TRUE
    ELSE bfsStepLoop({cells[i] : i \in 1..Len(cells)},
                     [done |-> FALSE, visited |-> {cells[1]}, bfsQueue |-> <<cells[1]>>,
                      head |-> 0, count |-> 1],
                     1, totalCells).count = Len(cells)

\* The contiguity test left out: every removal passes.
isContiguousAlways(assigned, pos, r) == TRUE

isContiguousAfterRemoval(assigned, pos, r) ==
    contiguousCells(SelectSeq([i \in 1..totalCells |-> i - 1],
                              LAMBDA p : assigned[p] = r /\ p # pos))

\* balanceRegions, the loop over the neighbors of pos: ctx = [assigned,
\* regionSizes, pos, nbs], acc = [done, candidates].
\* A plausible slip in the collection of candidates: the size of the
\* neighbor's region is not looked at.
balanceNeighborAnySize(ctx, acc, k) ==
    IF ctx.assigned[ctx.nbs[k]] # ctx.assigned[ctx.pos]
    THEN [acc EXCEPT !.candidates = Append(@, [pos |-> ctx.pos,
                                               fromRegion |-> ctx.assigned[ctx.pos],
                                               toRegion |-> ctx.assigned[ctx.nbs[k]]])]
    ELSE acc

balanceNeighbor(ctx, acc, k) ==
    IF /\ ctx.assigned[ctx.nbs[k]] # ctx.assigned[ctx.pos]
       /\ ctx.regionSizes[ctx.assigned[ctx.nbs[k]]] < regionSize
    THEN [acc EXCEPT !.candidates = Append(@, [pos |-> ctx.pos,
                                               fromRegion |-> ctx.assigned[ctx.pos],
                                               toRegion |-> ctx.assigned[ctx.nbs[k]]])]
    ELSE acc

RECURSIVE balanceNeighborLoop(_, _, _, _)
balanceNeighborLoop(ctx, acc, lo, hi) ==
    IF lo > hi \/ acc.done THEN acc
    ELSE IF lo = hi THEN balanceNeighbor(ctx, acc, lo)
    ELSE balanceNeighborLoop(ctx, balanceNeighborLoop(ctx, acc, lo, (lo + hi) \div 2),
                             (lo + hi) \div 2 + 1, hi)

balanceAround(ctx, acc, pos, nbs) ==
    balanceNeighborLoop([assigned |-> ctx.assigned, regionSizes |-> ctx.regionSizes,
                         pos |-> pos, nbs |-> nbs],
                        acc, 1, Len(nbs))

\* balanceRegions, the loop over the cells that collects the candidates:
\* ctx = [assigned, regionSizes], acc = [done, candidates].
balanceCell(ctx, acc, pos) ==
    IF ctx.regionSizes[ctx.assigned[pos]] <= regionSize THEN acc
    ELSE balanceAround(ctx, acc, pos, orthogonalNeighbors(pos))

RECURSIVE balanceCellLoop(_, _, _, _)
balanceCellLoop(ctx, acc, lo, hi) ==
    IF lo > hi \/ acc.done THEN acc
    ELSE IF lo = hi THEN balanceCell(ctx, acc, lo)
    ELSE balanceCellLoop(ctx, balanceCellLoop(ctx, acc, lo, (lo + hi) \div 2),
                         (lo + hi) \div 2 + 1, hi)

\* balanceRegions, the loop that tries the candidates:
\* acc = [done, assigned, regionSizes, swapped].
\* A plausible slip in the swap: regionSizes is not updated.
balanceTryKeepsSizes(candidates, acc, k) ==
    IF isContiguousAfterRemoval(acc.assigned, candidates[k].pos, candidates[k].fromRegion)
    THEN [done |-> TRUE,
          assigned |-> [acc.assigned EXCEPT ![candidates[k].pos] = candidates[k].toRegion],
          regionSizes |-> acc.regionSizes,
          swapped |-> TRUE]
    ELSE acc

balanceTry(candidates, acc, k) ==
    IF isContiguousAfterRemoval(acc.assigned, candidates[k].pos, candidates[k].fromRegion)
    THEN [done |-> TRUE,
          assigned |-> [acc.assigned EXCEPT ![candidates[k].pos] = candidates[k].toRegion],
          regionSizes |-> [acc.regionSizes EXCEPT ![candidates[k].fromRegion] = @ - 1,
                                                  ![candidates[k].toRegion] = @ + 1],
          swapped |-> TRUE]
    ELSE acc

RECURSIVE balanceTryLoop(_, _, _, _)
balanceTryLoop(candidates, acc, lo, hi) ==
    IF lo > hi \/ acc.done THEN acc
    ELSE IF lo = hi THEN balanceTry(candidates, acc, lo)
    ELSE balanceTryLoop(candidates, balanceTryLoop(candidates, acc, lo, (lo + hi) \div 2),
                        (lo + hi) \div 2 + 1, hi)

\* balanceRegions returns false: tryGenerate and the turn of GenerateRegionMap's
\* loop end, the next turn is due.
balanceFails(j) ==
    [j EXCEPT !.pc = "try", !.retries = @ + 1, !.assigned = NoAssigned, !.queue = <<>>,
              !.head = 0, !.regionSizes = NoSizes, !.iter = 0]

\* balanceRegions returns the map: so do tryGenerate and GenerateRegionMap.
balanceDone(j) ==
    [j EXCEPT !.pc = "map", !.regionMap = j.assigned, !.assigned = NoAssigned,
              !.queue = <<>>, !.head = 0, !.regionSizes = NoSizes, !.iter = 0]

balanceSwapped(j, rng, sw) ==
    IF ~sw.swapped THEN balanceFails([j EXCEPT !.rng = rng])
    ELSE [j EXCEPT !.rng = rng, !.assigned = sw.assigned,
                   !.regionSizes = sw.regionSizes, !.iter = @ + 1]

balanceShuffled(j, sh) ==
    balanceSwapped(j, sh.rng,
                   balanceTryLoop(sh.seq,
                                  [done |-> FALSE, assigned |-> j.assigned,
                                   regionSizes |-> j.regionSizes, swapped |-> FALSE],
                                  1, Len(sh.seq)))

balanceCandidates(j, found) ==
    IF Len(found.candidates) = 0 THEN balanceFails(j)
    ELSE balanceShuffled(j, Shuffle(j.rng, found.candidates))

\* One turn of the loop of balanceRegions.
balanceRegions(j) ==
    IF j.iter >= maxIter THEN balanceFails(j)
    ELSE IF \A r \in 0..(gridSize - 1) : j.regionSizes[r] = regionSize THEN balanceDone(j)
    ELSE balanceCandidates(j, balanceCellLoop([assigned |-> j.assigned,
                                               regionSizes |-> j.regionSizes],
                                              [done |-> FALSE, candidates |-> <<>>],
                                              0, totalCells - 1))

\* RandomJigsawLayout after GenerateRegionMap has returned: built is what
\* NewLayout makes of the map.
layoutBuilt(j, built) ==
    IF built.err # "nil"
    THEN [j EXCEPT !.pc = "panic", !.err = "jigsaw region generation produced invalid layout"]
    ELSE [j EXCEPT !.pc = "done", !.layout = built.l]

RandomJigsawLayout(j) == layoutBuilt(j, NewLayout(j.regionMap))

(***************************************************************************)
(* Generator                                                               *)
(***************************************************************************)
MinValidClueCount == 17
MaxValidClueCount == 80

\* The body of the loop of rng.Perm(n): acc = [done, m, rng].
permDrawn(acc, i, draw) ==
    [acc EXCEPT !.m = [@ EXCEPT ![i] = acc.m[draw.v], ![draw.v] = i], !.rng = draw.rng]

permPlace(acc, i) == permDrawn(acc, i, Intn(acc.rng, i + 1))

RECURSIVE permPlaceLoop(_, _, _)
permPlaceLoop(acc, lo, hi) ==
    IF lo > hi \/ acc.done THEN acc
    ELSE IF lo = hi THEN permPlace(acc, lo)
    ELSE permPlaceLoop(permPlaceLoop(acc, lo, (lo + hi) \div 2),
                       (lo + hi) \div 2 + 1, hi)

\* rng.Perm(n): [done, m, rng], the permutation m of 0..n-1 and the source after.
Perm(rng, n) ==
    permPlaceLoop([done |-> FALSE, m |-> [i \in 0..(n - 1) |-> 0], rng |-> rng], 0, n - 1)

\* generator.New(options) with clock the value of time.Now().UnixNano(): the
\* fields of the Generator.
NewGenerator(options, clock) ==
    [options |-> options,
     rng |-> NewSource(IF options.Seed = 0 THEN clock ELSE options.Seed)]

\* The closure backtrack of countSolutions called on Board b with count
\* solutions found so far: count after the call.  countTry is the body of its
\* loop over the candidates: ctx = [b, pos, candidates], acc = [done, count].
RECURSIVE countBacktrack(_, _)
countTry(ctx, acc, k) ==
    IF acc.count >= 2 THEN [acc EXCEPT !.done = TRUE]
    ELSE [acc EXCEPT !.count = countBacktrack(SetForce(Clone(ctx.b), ctx.pos,
                                                       ctx.candidates[k]),
                                              acc.count)]

RECURSIVE countTryLoop(_, _, _, _)
countTryLoop(ctx, acc, lo, hi) ==
    IF lo > hi \/ acc.done THEN acc
    ELSE IF lo = hi THEN countTry(ctx, acc, lo)
    ELSE countTryLoop(ctx, countTryLoop(ctx, acc, lo, (lo + hi) \div 2),
                      (lo + hi) \div 2 + 1, hi)

countChoose(b, count, mrv) ==
    IF Len(mrv.mrvCandidates) = 0 THEN count
    ELSE countTryLoop([b |-> b, pos |-> mrv.mrvPos, candidates |-> mrv.mrvCandidates],
                      [done |-> FALSE, count |-> count],
                      1, Len(mrv.mrvCandidates)).count

countPropagated(p, count) ==
    IF p.err # "nil" THEN count
    ELSE IF EmptyCount(p.b) = 0 THEN count + 1
    ELSE countChoose(p.b, count, FindMRVCell(p.b))

countBacktrack(b, count) == countPropagated(PropagateConstraints(Clone(b)), count)

\* countSolutions(s), b the Board of the Solver s.
countSolutions(b) == countBacktrack(Clone(b), 0)

\* hasUniqueSolution(puzzle): the Solver it builds owns a clone of puzzle.
hasUniqueSolution(puzzle) == countSolutions(Clone(puzzle)) = 1

\* A run of Generate is a record g = [pc, options, rng, clock, attempts,
\* solution, puzzle, positions, k, cellsRemoved, err].  pc is "new" before
\* generator.New, "ready" before Generate, "loop" at the top of the loop of
\* Generate, "solving" while the Solve of generateSolution runs, "dig" at the
\* top of the loop of removeCells, "done" when Generate has returned puzzle,
\* solution and err.  clock is the last value read from the clock, attempts
\* the number of turns of the loop begun.

\* Generate up to its loop.
generateBegin(g) ==
    IF g.options.ClueCount < MinValidClueCount \/ g.options.ClueCount > MaxValidClueCount
    THEN [g EXCEPT !.pc = "done", !.err = "ErrInvalidClueCount"]
    ELSE [g EXCEPT !.pc = "loop"]

\* Generate finds its time used up.
generateTimeout(g) ==
    [g EXCEPT !.pc = "done", !.puzzle = NilBoard, !.solution = NilBoard,
              !.err = "ErrGenerationFailed"]

\* The options generateSolution gives its Solver.
solutionOptions(g) ==
    [MaxSolutions |-> 1, Randomize |-> TRUE, Timeout |-> g.options.Timeout]

\* removeCells up to its loop: drawn is what rng.Perm(81) returned.
removeBegin(g, solution, drawn) ==
    [g EXCEPT !.pc = "dig", !.solution = solution, !.puzzle = Clone(solution),
              !.rng = drawn.rng, !.positions = drawn.m, !.k = 0, !.cellsRemoved = 0,
              !.err = "nil"]

\* Generate after generateSolution has returned solution and err.
generateSolved(g, solution, err) ==
    IF err # "nil" THEN [g EXCEPT !.pc = "loop", !.solution = NilBoard, !.err = err]
    ELSE removeBegin(g, solution, Perm(g.rng, CellCount))

\* One turn of the loop of removeCells, at positions[k]: cleared is the
\* puzzle after Clear(pos), unique what hasUniqueSolution says of it.
removeChecked(g, pos, val, cleared, unique) ==
    IF g.options.EnsureUnique /\ ~unique
    THEN [g EXCEPT !.puzzle = SetForce(cleared, pos, val), !.k = @ + 1]
    ELSE [g EXCEPT !.puzzle = cleared, !.cellsRemoved = @ + 1, !.k = @ + 1]

removeCleared(g, pos, val, cleared) ==
    removeChecked(g, pos, val, cleared, g.options.EnsureUnique /\ hasUniqueSolution(cleared))

removeCell(g) ==
    IF Get(g.puzzle, g.positions[g.k]) = EmptyCell THEN [g EXCEPT !.k = @ + 1]
    ELSE removeCleared(g, g.positions[g.k], Get(g.puzzle, g.positions[g.k]),
                       Clear(g.puzzle, g.positions[g.k]).b)

\* Generate takes whatever removeCells has dug.
removeReturnsAnyCount(g) ==
    IF g.options.EnsureUnique /\ ~hasUniqueSolution(g.puzzle)
    THEN [g EXCEPT !.pc = "loop"]
    ELSE [g EXCEPT !.pc = "done"]

\* From the end of the loop of removeCells: its return, and Generate to the
\* next turn of its loop or to its return.
removeReturns(g) ==
    IF g.cellsRemoved # CellCount - g.options.ClueCount
    THEN [g EXCEPT !.pc = "loop", !.err = "ErrDiggingFailed"]
    ELSE IF g.options.EnsureUnique /\ ~hasUniqueSolution(g.puzzle)
    THEN [g EXCEPT !.pc = "loop"]
    ELSE [g EXCEPT !.pc = "done"]

(***************************************************************************)
(* The Board API driven by a caller                                        *)
(***************************************************************************)
\* Bounds of the caller's arguments.
MaxPos == 3
MaxVal == 2

\* The cells the caller addresses: 0 and 1 share a row and a region; 0 and 11
\* share a region in the standard layout and none in the jigsaw layout; 40
\* shares no unit with them.
PosPool == <<0, 1, 11, 40, 9, 72, 20>>

CallPositions == {PosPool[i] : i \in 1..MaxPos} \cup {-1, CellCount}
CallValues == ((-1)..MaxVal) \cup {10}

BoardLayouts == {StandardLayout, NewLayout(jigsawPreset0).l}

NoCall(b) == [op |-> "New", pos |-> 0, val |-> 0, err |-> "nil", pre |-> b]

LayIdle == [pc |-> "idle"]
SolIdle == [pc |-> "idle"]
GenIdle == [pc |-> "idle"]
JigIdle == [pc |-> "idle"]
HeapIdle == [a \in Addr |-> New(NilLayout)]

InitBoard ==
    /\ \E l \in BoardLayouts : board = New(l)
    /\ last = NoCall(board)
    /\ lay = LayIdle
    /\ heap = HeapIdle
    /\ sol = SolIdle
    /\ gen = GenIdle
    /\ jig = JigIdle

CallSet(pos, val) ==
    LET r == Set(board, pos, val) IN
    /\ board' = r.b
    /\ last' = [op |-> "Set", pos |-> pos, val |-> val, err |-> r.err, pre |-> board]
    /\ UNCHANGED <<lay, heap, sol, gen, jig>>

CallClear(pos) ==
    LET r == Clear(board, pos) IN
    /\ board' = r.b
    /\ last' = [op |-> "Clear", pos |-> pos, val |-> 0, err |-> r.err, pre |-> board]
    /\ UNCHANGED <<lay, heap, sol, gen, jig>>

\* The caller writes the Board out and reads it back: last keeps the string
\* and what NewFromString returned.
StringParsed(s, r) ==
    /\ last' = [op |-> "String", pos |-> 0, val |-> 0, err |-> r.err, pre |-> board,
                s |-> s, parsed |-> r.b]
    /\ UNCHANGED <<board, lay, heap, sol, gen, jig>>

CallString ==
    /\ last.op # "String"
    /\ StringParsed(String(board), NewFromString(String(board), board.layout))

\* The caller asks for the candidates of a cell: a cell it writes, or a cell
\* that shares only the row, only the column or only the box with cell 0.
QueryPositions == CallPositions \cup {8, 72, 20}

CandidatesReturned(pos, candidates, mask) ==
    /\ last' = [op |-> "GetCandidates", pos |-> pos, val |-> 0, err |-> "nil",
                pre |-> board, candidates |-> candidates, mask |-> mask]
    /\ UNCHANGED <<board, lay, heap, sol, gen, jig>>

CallGetCandidates(pos) ==
    CandidatesReturned(pos, GetCandidates(board, pos), GetCandidatesMask(board, pos))

NextBoard ==
    \/ \E pos \in CallPositions, val \in CallValues : CallSet(pos, val)
    \/ \E pos \in CallPositions : CallClear(pos)
    \/ CallString
    \/ \E pos \in QueryPositions : CallGetCandidates(pos)

SpecBoard == InitBoard /\ [][NextBoard]_vars

(***************************************************************************)
(* NewLayout called on a region map                                        *)
(***************************************************************************)
\* Bound of the cells at which the caller's region map departs from a valid one.
MaxLayPos == 4

\* Cells 2 and 12 can change places between boxes 0 and 1 of the standard map
\* and leave both contiguous; cell 3 cannot; cell 80 is a far corner.
LayPool == <<2, 12, 3, 80, 40, 30>>

LayPositions == {LayPool[i] : i \in 1..MaxLayPos}

\* Region values written into a map: the legal 0..8 and one value on each side.
LayValues == (-1)..9

LayBaseMaps == {standardRegionMap, jigsawPreset0}

\* The maps given to NewLayout: a valid map, a valid map with one entry
\* overwritten, a valid map with the regions of two cells exchanged.
LayInputs ==
    LayBaseMaps
    \cup {[m EXCEPT ![p] = v] : m \in LayBaseMaps, p \in LayPositions, v \in LayValues}
    \cup UNION {{[m EXCEPT ![p] = m[q], ![q] = m[p]] : p, q \in LayPositions} : m \in LayBaseMaps}

BoardIdle == New(NilLayout)

InitLayout ==
    /\ board = BoardIdle
    /\ last = NoCall(BoardIdle)
    /\ \E m \in LayInputs :
          lay = [pc |-> "call", regionMap |-> m, l |-> NilLayout, err |-> "nil"]
    /\ heap = HeapIdle
    /\ sol = SolIdle
    /\ gen = GenIdle
    /\ jig = JigIdle

CallNewLayout ==
    /\ lay.pc = "call"
    /\ LET r == NewLayout(lay.regionMap) IN
       lay' = [pc |-> "done", regionMap |-> lay.regionMap, l |-> r.l, err |-> r.err]
    /\ UNCHANGED <<board, last, heap, sol, gen, jig>>

NextLayout == CallNewLayout

SpecLayout == InitLayout /\ [][NextLayout]_vars

(***************************************************************************)
(* A Solver driven by a caller                                             *)
(***************************************************************************)
\* A complete grid that breaks no rule of the standard layout.
SolveGrid ==
    <<
       1, 2, 3, 5, 6, 4, 8, 9, 7,
       4, 5, 6, 8, 9, 7, 2, 3, 1,
       7, 8, 9, 2, 3, 1, 5, 6, 4,
       9, 7, 5, 1, 2, 3, 6, 4, 8,
       3, 1, 8, 4, 5, 6, 9, 7, 2,
       2, 6, 4, 7, 8, 9, 3, 1, 5,
       5, 9, 7, 6, 4, 8, 1, 2, 3,
       8, 3, 1, 9, 7, 2, 4, 5, 6,
       6, 4, 2, 3, 1, 5, 7, 8, 9 >>

\* The Boards given to the solver, as their 81 cells:
\*   1  SolveGrid with three cells of the grid emptied
\*   2  SolveGrid with three cells emptied and one digit changed so that cell 71 has no candidate
\*   3  SolveGrid with three cells emptied and a second 1 put into row 0
\*   4  SolveGrid with 30 cells emptied: solved with one guess
\*   5  SolveGrid with 38 cells emptied
\*   6  SolveGrid with 52 cells emptied
\*   7  the empty board
\*   8  SolveGrid with 43 cells emptied
PuzzlePool ==
    <<
     <<
       0, 2, 3, 5, 6, 4, 8, 9, 7,
       4, 5, 6, 8, 9, 7, 2, 3, 1,
       7, 8, 9, 2, 3, 1, 5, 6, 4,
       9, 7, 5, 1, 2, 3, 6, 4, 8,
       3, 1, 8, 4, 0, 6, 9, 7, 2,
       2, 6, 4, 7, 8, 9, 3, 1, 5,
       5, 9, 7, 6, 4, 8, 1, 2, 3,
       8, 3, 1, 9, 7, 2, 4, 5, 6,
       6, 4, 2, 3, 1, 5, 7, 8, 0 >>,
     <<
       1, 2, 3, 5, 6, 4, 8, 9, 7,
       4, 5, 6, 8, 9, 7, 2, 3, 1,
       7, 8, 9, 2, 3, 1, 5, 6, 4,
       9, 7, 5, 1, 2, 3, 6, 4, 8,
       3, 1, 8, 4, 5, 6, 9, 7, 2,
       0, 6, 4, 7, 8, 9, 3, 1, 5,
       5, 9, 7, 6, 4, 8, 1, 2, 3,
       8, 3, 1, 9, 7, 2, 4, 5, 0,
       0, 4, 2, 3, 1, 5, 7, 8, 6 >>,
     <<
       1, 1, 3, 5, 6, 4, 8, 9, 0,
       4, 5, 6, 8, 9, 7, 2, 3, 1,
       7, 8, 9, 2, 3, 1, 5, 6, 4,
       9, 7, 5, 1, 2, 3, 6, 4, 8,
       3, 1, 8, 4, 0, 6, 9, 7, 2,
       2, 6, 4, 7, 8, 9, 3, 1, 5,
       5, 9, 7, 6, 4, 8, 1, 2, 3,
       8, 3, 1, 9, 7, 2, 4, 5, 6,
       6, 4, 2, 3, 1, 5, 7, 8, 0 >>,
     <<
       1, 2, 0, 0, 0, 4, 0, 0, 7,
       4, 5, 0, 0, 0, 0, 2, 3, 1,
       7, 8, 9, 2, 3, 1, 5, 6, 0,
       9, 7, 5, 0, 2, 3, 6, 0, 8,
       0, 1, 0, 0, 5, 0, 9, 7, 2,
       0, 6, 4, 7, 8, 9, 3, 1, 0,
       5, 0, 7, 6, 0, 0, 0, 2, 0,
       8, 0, 1, 0, 7, 2, 4, 5, 0,
       0, 4, 2, 0, 1, 5, 0, 8, 0 >>,
     <<
       0, 2, 0, 0, 6, 0, 8, 0, 0,
       0, 0, 6, 8, 9, 0, 2, 3, 0,
       7, 8, 9, 0, 3, 0, 0, 0, 0,
       9, 7, 0, 1, 0, 3, 0, 4, 0,
       0, 1, 0, 4, 0, 6, 9, 7, 2,
       2, 6, 0, 7, 0, 9, 0, 0, 0,
       0, 9, 0, 6, 4, 8, 0, 0, 3,
       8, 0, 0, 9, 7, 0, 0, 0, 6,
       6, 4, 0, 3, 1, 0, 7, 8, 9 >>,
     <<
       0, 2, 0, 5, 0, 0, 0, 0, 0,
       4, 0, 0, 0, 0, 0, 2, 3, 1,
       0, 8, 0, 0, 3, 0, 0, 6, 0,
       9, 0, 0, 0, 2, 0, 0, 4, 0,
       0, 0, 0, 4, 0, 0, 9, 0, 2,
       2, 0, 0, 0, 8, 9, 0, 0, 0,
       5, 0, 0, 6, 0, 8, 0, 0, 3,
       0, 3, 0, 0, 0, 0, 0, 5, 0,
       0, 0, 2, 0, 1, 5, 0, 8, 9 >>,
     <<
       0, 0, 0, 0, 0, 0, 0, 0, 0,
       0, 0, 0, 0, 0, 0, 0, 0, 0,
       0, 0, 0, 0, 0, 0, 0, 0, 0,
       0, 0, 0, 0, 0, 0, 0, 0, 0,
       0, 0, 0, 0, 0, 0, 0, 0, 0,
       0, 0, 0, 0, 0, 0, 0, 0, 0,
       0, 0, 0, 0, 0, 0, 0, 0, 0,
       0, 0, 0, 0, 0, 0, 0, 0, 0,
       0, 0, 0, 0, 0, 0, 0, 0, 0 >>,
     <<
       0, 0, 0, 0, 6, 0, 8, 9, 7,
       0, 0, 0, 0, 0, 0, 0, 0, 1,
       0, 8, 0, 0, 3, 1, 0, 6, 0,
       0, 7, 5, 1, 0, 3, 0, 0, 0,
       0, 1, 8, 4, 5, 6, 9, 7, 2,
       2, 0, 4, 0, 8, 0, 3, 1, 5,
       5, 0, 0, 0, 4, 8, 1, 2, 0,
       0, 0, 1, 0, 0, 0, 0, 5, 0,
       6, 4, 0, 0, 1, 5, 0, 0, 0 >> >>

\* Bounds of the calls: the Boards are the first MaxPuzzle of the pool, the
\* clock read by solver.New is in 1..MaxClock, and Difficulty, which walks the
\* whole search tree, is given Boards of at most MaxDifficultyHoles empty cells.
MaxPuzzle == 7
MaxClock == 2
MaxDifficultyHoles == 3

\* The completions of an input are enumerated for inputs of at most
\* MaxCompletionHoles empty cells.
MaxCompletionHoles == 43

Puzzles == {PuzzlePool[i] : i \in 1..MaxPuzzle}

Holes(cells) == Cardinality({i \in 1..CellCount : cells[i] = EmptyCell})

\* SolveGrid without its digits 1 and 4 in the first three rows: every empty
\* cell has two candidates, so Difficulty branches.
BranchingHoles == {0, 5, 9, 17, 23, 26}
BranchingPuzzle ==
    [i \in 1..CellCount |-> IF (i - 1) \in BranchingHoles THEN EmptyCell ELSE SolveGrid[i]]

\* Options a caller passes to solver.New: plain, with a timeout, randomized.
SolveOptions ==
    {[MaxSolutions |-> 1, Randomize |-> FALSE, Timeout |-> 0],
     [MaxSolutions |-> 1, Randomize |-> FALSE, Timeout |-> 1],
     [MaxSolutions |-> 1, Randomize |-> TRUE, Timeout |-> 0]}

\* The clock matters to a randomized Solver only.
Clocks(options) == IF options.Randomize THEN 1..MaxClock ELSE {0}

SolveCalls ==
    UNION {{[op |-> "Solve", cells |-> p, options |-> o, clock |-> c] : c \in Clocks(o)} :
              p \in Puzzles, o \in SolveOptions}
    \cup {[op |-> "PropagateConstraints", cells |-> p, options |-> DefaultOptions, clock |-> 0] :
              p \in Puzzles}
    \cup {[op |-> "FindMRVCell", cells |-> p, options |-> DefaultOptions, clock |-> 0] :
              p \in Puzzles \cup {BranchingPuzzle}}
    \cup {[op |-> "Difficulty", cells |-> p, options |-> NilOptions, clock |-> 0] :
              p \in {q \in Puzzles : Holes(q) <= MaxDifficultyHoles} \cup {BranchingPuzzle}}

InitSolve ==
    /\ board = BoardIdle
    /\ last = NoCall(BoardIdle)
    /\ lay = LayIdle
    /\ gen = GenIdle
    /\ jig = JigIdle
    /\ \E c \in SolveCalls :
          /\ heap = [a \in Addr |-> IF a = "caller" THEN BoardOf(NilLayout, c.cells)
                                    ELSE New(NilLayout)]
          /\ sol = [pc |-> "new", op |-> c.op, given |-> c.cells, clock |-> c.clock,
                    Board |-> "nil", options |-> c.options, rng |-> NoRng,
                    ctx |-> "none", stack |-> <<>>, ret |-> FALSE, err |-> "nil",
                    score |-> 0]

\* s := solver.New(b, options)
CallNewSolver ==
    /\ sol.pc = "new"
    /\ sol.op # "Difficulty"
    /\ LET n == NewSolver(heap, "caller", sol.options, sol.clock) IN
       /\ heap' = n.heap
       /\ sol' = [sol EXCEPT !.pc = "begin", !.Board = n.s.Board,
                             !.options = n.s.options, !.rng = n.s.rng]
    /\ UNCHANGED <<board, last, lay, gen, jig>>

\* A step of s.Solve() has made r of the run and the Solver's Board.
SolveStep(r) ==
    /\ sol' = r.s
    /\ heap' = [heap EXCEPT ![sol.Board] = r.b]
    /\ UNCHANGED <<board, last, lay, gen, jig>>

SolveBegin ==
    /\ sol.pc = "begin"
    /\ sol.op = "Solve"
    /\ SolveStep(solveBegin(sol, heap[sol.Board]))

BacktrackEnter ==
    /\ sol.pc = "backtrack"
    /\ SolveStep(backtrackEnter(sol, heap[sol.Board]))

BacktrackReturn ==
    /\ sol.pc = "return"
    /\ SolveStep(backtrackReturn(sol, heap[sol.Board]))

\* The deadline of the context passes.  backtrack polls the context at its
\* entry only, so the moments that differ are the entries.
CtxExpire ==
    /\ sol.pc = "backtrack"
    /\ sol.ctx = "live"
    /\ sol' = [sol EXCEPT !.ctx = "done"]
    /\ UNCHANGED <<board, last, lay, heap, gen, jig>>

\* s.PropagateConstraints() called by the caller.
CallPropagate ==
    /\ sol.pc = "begin"
    /\ sol.op = "PropagateConstraints"
    /\ SolveStep(propagateReturns(sol, PropagateConstraints(heap[sol.Board])))

\* s.FindMRVCell() has returned mrv.
MRVReturned(mrv) ==
    /\ sol' = [sol EXCEPT !.pc = "done"]
    /\ last' = [op |-> "FindMRVCell", pos |-> mrv.mrvPos, val |-> 0, err |-> "nil",
                pre |-> heap[sol.Board], candidates |-> mrv.mrvCandidates]
    /\ UNCHANGED <<board, lay, heap, gen, jig>>

\* s.FindMRVCell()
CallFindMRVCell ==
    /\ sol.pc = "begin"
    /\ sol.op = "FindMRVCell"
    /\ MRVReturned(FindMRVCell(heap[sol.Board]))

\* solver.Difficulty(b) has returned d.
DifficultyReturns(d) ==
    /\ heap' = d.heap
    /\ sol' = [sol EXCEPT !.pc = "done", !.score = d.score]
    /\ UNCHANGED <<board, last, lay, gen, jig>>

\* solver.Difficulty(b)
CallDifficulty ==
    /\ sol.pc = "new"
    /\ sol.op = "Difficulty"
    /\ DifficultyReturns(Difficulty(heap, "caller"))

NextSolve ==
    \/ CallNewSolver
    \/ SolveBegin
    \/ BacktrackEnter
    \/ BacktrackReturn
    \/ CtxExpire
    \/ CallPropagate
    \/ CallDifficulty
    \/ CallFindMRVCell

SpecSolve == InitSolve /\ [][NextSolve]_vars

\* Solve runs on: a step that can be taken is taken.  A step can be taken
\* in every state but those with pc = "done", so that WF_vars(NextSolve)
\* is the formula below, in which no step has to be tried to find whether
\* it is enabled.
SpecSolveFair ==
    /\ InitSolve
    /\ [][NextSolve]_vars
    /\ ([]<>(sol.pc = "done") \/ []<><<NextSolve>>_vars)

(***************************************************************************)
(* RandomJigsawLayout called with a seeded source                          *)
(***************************************************************************)
\* The seeds of the caller's source are 1..MaxJigSeed.
MaxJigSeed == 3

InitJigsaw ==
    /\ board = BoardIdle
    /\ last = NoCall(BoardIdle)
    /\ lay = LayIdle
    /\ heap = HeapIdle
    /\ sol = SolIdle
    /\ gen = GenIdle
    /\ \E seed \in 1..MaxJigSeed :
          jig = [pc |-> "try", rng |-> NewSource(seed), retries |-> 0,
                 assigned |-> NoAssigned, queue |-> <<>>, head |-> 0,
                 regionSizes |-> NoSizes, iter |-> 0,
                 regionMap |-> NoAssigned, layout |-> NilLayout, err |-> "nil"]

JigStep(j) == jig' = j /\ UNCHANGED <<board, last, lay, heap, sol, gen>>

\* GenerateRegionMap calls tryGenerate.
JigTry == jig.pc = "try" /\ JigStep(tryGenerate(jig))

\* tryGenerate expands one level of its BFS.
JigLevel == jig.pc = "bfs" /\ jig.head < Len(jig.queue) /\ JigStep(bfsLevel(jig))

\* tryGenerate calls balanceRegions.
JigSizes == jig.pc = "bfs" /\ jig.head >= Len(jig.queue) /\ JigStep(bfsEnd(jig))

\* balanceRegions runs one turn of its loop.
JigBalance == jig.pc = "balance" /\ JigStep(balanceRegions(jig))

\* RandomJigsawLayout builds the Layout of the map.
JigLayout == jig.pc = "map" /\ JigStep(RandomJigsawLayout(jig))

NextJigsaw ==
    \/ JigTry
    \/ JigLevel
    \/ JigSizes
    \/ JigBalance
    \/ JigLayout

SpecJigsaw == InitJigsaw /\ [][NextJigsaw]_vars

(***************************************************************************)
(* A Generator driven by a caller                                          *)
(***************************************************************************)
\* The values the clock may show, the first MaxGenClock of them are used; a
\* later read of the clock gives a larger value.  Seeded with 21998, the
\* Solver of generateSolution returns a grid that repeats digits.
ClockPool == <<1, 21998, 2>>
MaxGenClock == 2
GenClocks == {ClockPool[i] : i \in 1..MaxGenClock}

\* The loop of Generate begins at most MaxAttempts turns before its time is
\* used up.
MaxAttempts == 2

\* Options a caller passes to generator.New.
GenOptions ==
    {[ClueCount |-> 80, Timeout |-> 10, Seed |-> 1, EnsureUnique |-> TRUE, Layout |-> NilLayout],
     [ClueCount |-> 79, Timeout |-> 10, Seed |-> 0, EnsureUnique |-> TRUE, Layout |-> NilLayout],
     [ClueCount |-> 17, Timeout |-> 10, Seed |-> 1, EnsureUnique |-> TRUE, Layout |-> NilLayout],
     [ClueCount |-> 17, Timeout |-> 10, Seed |-> 1, EnsureUnique |-> FALSE, Layout |-> NilLayout],
     [ClueCount |-> 16, Timeout |-> 10, Seed |-> 1, EnsureUnique |-> TRUE, Layout |-> NilLayout],
     [ClueCount |-> 81, Timeout |-> 10, Seed |-> 1, EnsureUnique |-> TRUE, Layout |-> NilLayout],
     [ClueCount |-> 80, Timeout |-> 0, Seed |-> 1, EnsureUnique |-> TRUE, Layout |-> NilLayout]}

\* The values a read of the clock may give after clock was read.
LaterClocks(clock) == {c \in GenClocks : c > clock}

InitGenerate ==
    /\ board = BoardIdle
    /\ last = NoCall(BoardIdle)
    /\ lay = LayIdle
    /\ heap = HeapIdle
    /\ sol = SolIdle
    /\ jig = JigIdle
    /\ \E o \in GenOptions :
          gen = [pc |-> "new", options |-> o, rng |-> NoRng, clock |-> 0, attempts |-> 0,
                 solution |-> NilBoard, puzzle |-> NilBoard,
                 positions |-> [i \in 0..(CellCount - 1) |-> 0], k |-> 0,
                 cellsRemoved |-> 0, err |-> "nil"]

GenStep(g) == gen' = g /\ UNCHANGED <<board, last, lay, heap, sol, jig>>

\* g := generator.New(options)
CallNewGenerator ==
    /\ gen.pc = "new"
    /\ \E c \in IF gen.options.Seed = 0 THEN LaterClocks(gen.clock) ELSE {gen.clock} :
          GenStep([gen EXCEPT !.pc = "ready", !.clock = c,
                              !.rng = NewGenerator(gen.options, c).rng])

\* g.Generate()
CallGenerate == gen.pc = "ready" /\ GenStep(generateBegin(gen))

\* Generate finds its time used up.
GenTimeout == gen.pc = "loop" /\ GenStep(generateTimeout(gen))

\* Generate calls generateSolution, which builds a Solver on a new Board and
\* calls its Solve.
GenSolution ==
    /\ gen.pc = "loop"
    /\ gen.options.Timeout # 0
    /\ gen.attempts < MaxAttempts
    /\ \E c \in LaterClocks(gen.clock) :
          LET n == NewSolver([heap EXCEPT !["caller"] = New(gen.options.Layout)],
                             "caller", solutionOptions(gen), c)
          IN  /\ heap' = n.heap
              /\ sol' = [pc |-> "begin", op |-> "Solve",
                         given |-> [i \in 1..CellCount |-> EmptyCell], clock |-> c,
                         Board |-> n.s.Board, options |-> n.s.options, rng |-> n.s.rng,
                         ctx |-> "none", stack |-> <<>>, ret |-> FALSE, err |-> "nil",
                         score |-> 0]
              /\ gen' = [gen EXCEPT !.pc = "solving", !.clock = c, !.attempts = @ + 1]
    /\ UNCHANGED <<board, last, lay, jig>>

\* The Solve of generateSolution has returned.
GenSolved ==
    /\ gen.pc = "solving"
    /\ sol.pc = "done"
    /\ gen' = generateSolved(gen, heap[sol.Board], sol.err)
    /\ sol' = SolIdle
    /\ heap' = HeapIdle
    /\ UNCHANGED <<board, last, lay, jig>>

\* removeCells runs one turn of its loop.
GenRemoveCell ==
    /\ gen.pc = "dig"
    /\ gen.k < CellCount
    /\ gen.cellsRemoved < CellCount - gen.options.ClueCount
    /\ GenStep(removeCell(gen))

\* removeCells returns.
GenRemoved ==
    /\ gen.pc = "dig"
    /\ gen.k >= CellCount \/ gen.cellsRemoved >= CellCount - gen.options.ClueCount
    /\ GenStep(removeReturns(gen))

NextGenerate ==
    \/ CallNewGenerator
    \/ CallGenerate
    \/ GenTimeout
    \/ GenSolution
    \/ SolveBegin
    \/ BacktrackEnter
    \/ BacktrackReturn
    \/ CtxExpire
    \/ GenSolved
    \/ GenRemoveCell
    \/ GenRemoved

SpecGenerate == InitGenerate /\ [][NextGenerate]_vars

(***************************************************************************)
(* A Board and its Clone driven by a caller                                *)
(***************************************************************************)
\* The caller holds two references: b, the address "caller", and c, what
\* Clone returned ("nil" before the call of Clone).  last is the latest call,
\* the reference it went through, the heap before it and the number of calls
\* made so far.
MaxCloneCalls == 2
ClonePositions == {PosPool[1], PosPool[2]}
CloneValues == 1..2
CloneRefs == {"b", "c"}

RefAddr(ref, c) == IF ref = "b" THEN "caller" ELSE c

InitClone ==
    /\ board = BoardIdle
    /\ \E l \in BoardLayouts :
          heap = [a \in Addr |-> IF a = "caller" THEN New(l) ELSE New(NilLayout)]
    /\ last = [op |-> "New", on |-> "b", pos |-> 0, val |-> 0, err |-> "nil",
               pre |-> heap, c |-> "nil", n |-> 0]
    /\ lay = LayIdle
    /\ sol = SolIdle
    /\ gen = GenIdle
    /\ jig = JigIdle

CloneStep(op, ref, pos, val, r) ==
    /\ heap' = [heap EXCEPT ![RefAddr(ref, last.c)] = r.b]
    /\ last' = [last EXCEPT !.op = op, !.on = ref, !.pos = pos, !.val = val,
                            !.err = r.err, !.pre = heap, !.n = @ + 1]
    /\ UNCHANGED <<board, lay, sol, gen, jig>>

CallClone ==
    /\ last.c = "nil"
    /\ LET r == cloneAlloc(heap, "caller")
       IN  /\ heap' = r.heap
           /\ last' = [last EXCEPT !.op = "Clone", !.on = "b", !.pos = 0, !.val = 0,
                                   !.err = "nil", !.pre = heap, !.c = r.clone]
    /\ UNCHANGED <<board, lay, sol, gen, jig>>

CloneSet(ref, pos, val) ==
    /\ last.n < MaxCloneCalls
    /\ ref = "c" => last.c # "nil"
    /\ CloneStep("Set", ref, pos, val, Set(heap[RefAddr(ref, last.c)], pos, val))

CloneClear(ref, pos) ==
    /\ last.n < MaxCloneCalls
    /\ ref = "c" => last.c # "nil"
    /\ CloneStep("Clear", ref, pos, 0, Clear(heap[RefAddr(ref, last.c)], pos))

CloneSetForce(ref, pos, val) ==
    /\ last.n < MaxCloneCalls
    /\ ref = "c" => last.c # "nil"
    /\ CloneStep("SetForce", ref, pos, val,
                 [b |-> SetForce(heap[RefAddr(ref, last.c)], pos, val), err |-> "nil"])

NextClone ==
    \/ CallClone
    \/ \E ref \in CloneRefs, pos \in ClonePositions, val \in CloneValues \cup {EmptyCell} :
          CloneSet(ref, pos, val)
    \/ \E ref \in CloneRefs, pos \in ClonePositions : CloneClear(ref, pos)
    \/ \E ref \in CloneRefs, pos \in ClonePositions, val \in CloneValues :
          CloneSetForce(ref, pos, val)

SpecClone == InitClone /\ [][NextClone]_vars

(***************************************************************************)
(* IsValid called on a Board filled by SetForce, Set and Clear             *)
(***************************************************************************)
\* last is the latest call, what it returned, the Board before it and the
\* number of writing calls made so far.
MaxForceCalls == 3
ForcePositions == {PosPool[1], PosPool[2], PosPool[6], PosPool[7]}
ForceValues == 1..2

InitValid ==
    /\ \E l \in BoardLayouts : board = New(l)
    /\ last = [op |-> "New", ret |-> TRUE, pre |-> board, n |-> 0]
    /\ lay = LayIdle
    /\ heap = HeapIdle
    /\ sol = SolIdle
    /\ gen = GenIdle
    /\ jig = JigIdle

ValidStep(op, b) ==
    /\ last.n < MaxForceCalls
    /\ board' = b
    /\ last' = [op |-> op, ret |-> TRUE, pre |-> board, n |-> last.n + 1]
    /\ UNCHANGED <<lay, heap, sol, gen, jig>>

ValidSetForce(pos, val) == ValidStep("SetForce", SetForce(board, pos, val))

ValidSet(pos, val) == ValidStep("Set", Set(board, pos, val).b)

ValidClear(pos) == ValidStep("Clear", Clear(board, pos).b)

\* IsValid reads the cells through Get and writes its own three arrays only.
CallIsValid ==
    /\ last.op # "IsValid"
    /\ last' = [last EXCEPT !.op = "IsValid", !.ret = IsValid(board), !.pre = board]
    /\ UNCHANGED <<board, lay, heap, sol, gen, jig>>

NextValid ==
    \/ \E pos \in ForcePositions, val \in ForceValues : ValidSetForce(pos, val)
    \/ \E pos \in ForcePositions, val \in ForceValues : ValidSet(pos, val)
    \/ \E pos \in ForcePositions : ValidClear(pos)
    \/ CallIsValid

SpecValid == InitValid /\ [][NextValid]_vars

(***************************************************************************)
(* Two Solvers built one after the other on equal Boards                   *)
(***************************************************************************)
\* The caller holds a Board at "caller" and an equal one at "clone", builds a
\* first Solver on the first and runs its Solve, then builds a second Solver
\* on either Board, at a later time, and runs its Solve.  sol is the run in
\* progress; last keeps what the first Solve returned.
TwinOptions == [MaxSolutions |-> 1, Randomize |-> FALSE, Timeout |-> 0]

InitTwin ==
    /\ board = BoardIdle
    /\ last = [op |-> "New"]
    /\ lay = LayIdle
    /\ gen = GenIdle
    /\ jig = JigIdle
    /\ \E p \in Puzzles, c \in 1..MaxClock :
          /\ heap = [a \in Addr |-> IF a = "solver" THEN New(NilLayout)
                                    ELSE BoardOf(NilLayout, p)]
          /\ sol = [pc |-> "new", op |-> "Solve", given |-> p, clock |-> c,
                    Board |-> "nil", options |-> TwinOptions, rng |-> NoRng,
                    ctx |-> "none", stack |-> <<>>, ret |-> FALSE, err |-> "nil",
                    score |-> 0]

\* The first Solve has returned; s := solver.New(b, options) for the second.
CallNewTwin(b) ==
    /\ sol.pc = "done"
    /\ last.op = "New"
    /\ last' = [op |-> "Solve", err |-> sol.err, cells |-> heap[sol.Board].cells]
    /\ LET n == NewSolver(heap, b, TwinOptions, sol.clock + 1) IN
       /\ heap' = n.heap
       /\ sol' = [sol EXCEPT !.pc = "begin", !.clock = @ + 1, !.Board = n.s.Board,
                             !.options = n.s.options, !.rng = n.s.rng,
                             !.ctx = "none", !.stack = <<>>, !.ret = FALSE,
                             !.err = "nil"]
    /\ UNCHANGED <<board, lay, gen, jig>>

NextTwin ==
    \/ CallNewSolver
    \/ SolveBegin
    \/ BacktrackEnter
    \/ BacktrackReturn
    \/ \E b \in {"caller", "clone"} : CallNewTwin(b)

SpecTwin == InitTwin /\ [][NextTwin]_vars

(***************************************************************************)
(* Two Generators created one after the other with the same options        *)
(***************************************************************************)
\* The caller creates a Generator with a non-zero Seed and calls Generate,
\* then does both again with the same options; the clock goes on.  gen is the
\* run in progress; last keeps the pair the first Generate returned.
SeededOptions == {o \in GenOptions : o.Seed # 0 /\ o.Timeout # 0 /\ o.ClueCount = 80}

InitSeeded ==
    /\ board = BoardIdle
    /\ last = NoCall(BoardIdle)
    /\ lay = LayIdle
    /\ heap = HeapIdle
    /\ sol = SolIdle
    /\ jig = JigIdle
    /\ \E o \in SeededOptions :
          gen = [pc |-> "new", options |-> o, rng |-> NoRng, clock |-> 0, attempts |-> 0,
                 solution |-> NilBoard, puzzle |-> NilBoard,
                 positions |-> [i \in 0..(CellCount - 1) |-> 0], k |-> 0,
                 cellsRemoved |-> 0, err |-> "nil"]

\* The first Generate has returned a pair; the caller keeps it and is about to
\* call generator.New(options) again.
CallGenerateAgain ==
    /\ gen.pc = "done"
    /\ gen.err = "nil"
    /\ last.op = "New"
    /\ last' = [op |-> "Generate", puzzle |-> gen.puzzle, solution |-> gen.solution]
    /\ gen' = [gen EXCEPT !.pc = "new", !.rng = NoRng, !.attempts = 0,
                          !.solution = NilBoard, !.puzzle = NilBoard,
                          !.positions = [i \in 0..(CellCount - 1) |-> 0], !.k = 0,
                          !.cellsRemoved = 0]
    /\ UNCHANGED <<board, lay, heap, sol, jig>>

NextSeeded ==
    \/ CallNewGenerator
    \/ CallGenerate
    \/ GenTimeout
    \/ GenSolution
    \/ SolveBegin
    \/ BacktrackEnter
    \/ BacktrackReturn
    \/ CtxExpire
    \/ GenSolved
    \/ GenRemoveCell
    \/ GenRemoved
    \/ CallGenerateAgain

SpecSeeded == InitSeeded /\ [][NextSeeded]_vars

(***************************************************************************)
(* Solve on Boards it may seed, up to the return of fillThreeBoxes         *)
(***************************************************************************)
\* The clock read by solver.New is in 1..MaxSeedClock.
MaxSeedClock == 60

SeedLayouts == {NilLayout, NewLayout(jigsawPreset0).l}

\* The empty grid and the empty grid with one digit.
SeedGrids == {PuzzlePool[7], [PuzzlePool[7] EXCEPT ![41] = 5]}

SeedCalls ==
    {[cells |-> p, layout |-> l, options |-> o, clock |-> c] :
        p \in SeedGrids, l \in SeedLayouts,
        o \in {[Randomize |-> TRUE, MaxSolutions |-> 1, Timeout |-> 0]}, c \in 1..MaxSeedClock}
    \cup {[cells |-> p, layout |-> l, options |-> DefaultOptions, clock |-> 0] :
             p \in SeedGrids, l \in SeedLayouts}

InitSeed ==
    /\ board = BoardIdle
    /\ last = NoCall(BoardIdle)
    /\ lay = LayIdle
    /\ gen = GenIdle
    /\ jig = JigIdle
    /\ \E c \in SeedCalls :
          /\ heap = [a \in Addr |-> IF a = "caller" THEN BoardOf(c.layout, c.cells)
                                    ELSE New(NilLayout)]
          /\ sol = [pc |-> "new", op |-> "Seed", given |-> c.cells, clock |-> c.clock,
                    Board |-> "nil", options |-> c.options, rng |-> NoRng,
                    ctx |-> "none", stack |-> <<>>, ret |-> FALSE, err |-> "nil",
                    score |-> 0]

\* Solve has seeded its Board, or has left it as it was.
SeedStep(seeded) ==
    /\ sol' = [sol EXCEPT !.pc = "seeded", !.rng = seeded.rng]
    /\ heap' = [heap EXCEPT ![sol.Board] = seeded.b]
    /\ UNCHANGED <<board, last, lay, gen, jig>>

\* s.Solve() up to its call of PropagateConstraints
SolveSeed ==
    /\ sol.pc = "begin"
    /\ sol.op = "Seed"
    /\ IsValid(heap[sol.Board])
    /\ SeedStep(solveSeeded(sol, heap[sol.Board]))

NextSeed ==
    \/ CallNewSolver
    \/ SolveSeed

SpecSeed == InitSeed /\ [][NextSeed]_vars

(***************************************************************************)
(* What the claims speak of, stated on the cells alone                     *)
(***************************************************************************)
HasBit(mask, d) == (d - 1) \in mask

RowOf(r) == {p \in Positions : p \div 9 = r}
ColOf(c) == {p \in Positions : p % 9 = c}
RegionOf(l, g) == {p \in Positions : l.PosToRegion[p] = g}

SameUnit(l, p, q) ==
    \/ p \div 9 = q \div 9
    \/ p % 9 = q % 9
    \/ l.PosToRegion[p] = l.PosToRegion[q]

MaskExact(b, mask, unit) ==
    \A d \in Digits : HasBit(mask, d) <=> (\E p \in unit : b.cells[p] = d)

MasksExact(b) ==
    /\ \A r \in Units : MaskExact(b, b.rowMasks[r], RowOf(r))
    /\ \A c \in Units : MaskExact(b, b.colMasks[c], ColOf(c))
    /\ \A g \in Units : MaskExact(b, b.regionMasks[g], RegionOf(b.layout, g))

CountExact(b) == b.emptyCount = Cardinality({p \in Positions : b.cells[p] = EmptyCell})

NoDuplicate(b) ==
    \A p, q \in Positions :
        (p # q /\ b.cells[p] # EmptyCell /\ b.cells[p] = b.cells[q]) => ~SameUnit(b.layout, p, q)

\* C1: in every state reachable from New(layout) by Set and Clear calls,
\* whatever they return, empty_count is the number of empty cells, every
\* unit mask has exactly the bits of the digits held in the unit, and
\* IsValid() is true.
C1_BoardInvariant ==
    /\ CountExact(board)
    /\ MasksExact(board)
    /\ IsValid(board)

\* A Set refused as an illegal move on a cell that held a digit, with another
\* digit on the board.
C1_Witness ==
    /\ last.op = "Set"
    /\ last.err = "ErrIllegalMove"
    /\ last.pre.cells[last.pos] # EmptyCell
    /\ board.emptyCount < CellCount

\* C2: whenever Set returns an error the Board is what it was before the call.
C2_FailedSetLeavesBoard ==
    (last.op = "Set" /\ last.err # "nil") => board = last.pre

Adjacent(p, q) ==
    \/ p \div 9 = q \div 9 /\ ((p % 9) = (q % 9) + 1 \/ (q % 9) = (p % 9) + 1)
    \/ (p % 9) = (q % 9) /\ ((p \div 9) = (q \div 9) + 1 \/ (q \div 9) = (p \div 9) + 1)

\* The cells of S joined to a cell of R by a path of adjacent cells of S.
RECURSIVE Reach(_, _)
Reach(S, R) ==
    LET more == R \cup {p \in S : \E q \in R : Adjacent(p, q)}
    IN  IF more = R THEN R ELSE Reach(S, more)

Connected(S) == S = {} \/ Reach(S, {CHOOSE p \in S : TRUE}) = S

WellFormed(m) ==
    /\ \A p \in Positions : m[p] \in Units
    /\ \A g \in Units : Cardinality({p \in Positions : m[p] = g}) = 9
    /\ \A g \in Units : Connected({p \in Positions : m[p] = g})

\* C8: NewLayout returns a Layout exactly when every entry of the map is in
\* 0..8, every region has exactly 9 cells and every region is orthogonally
\* connected; in every other case it returns InvalidLayout and no Layout.
C8_NewLayoutAcceptsExactlyValid ==
    lay.pc = "done" =>
        IF WellFormed(lay.regionMap)
        THEN /\ lay.err = "nil"
             /\ lay.l # NilLayout
             /\ lay.l.PosToRegion = lay.regionMap
             /\ \A g \in Units : {lay.l.RegionToCells[g][i] : i \in 0..8}
                                    = {p \in Positions : lay.regionMap[p] = g}
        ELSE lay.err = "InvalidLayout" /\ lay.l = NilLayout

\* NewLayout has accepted a map that is neither the standard map nor a preset.
C8_Witness ==
    /\ lay.pc = "done"
    /\ lay.err = "nil"
    /\ lay.regionMap \notin LayBaseMaps


\* The Board that Solve worked on, and what a completion of an input is.
Result == heap[sol.Board]

Full(b) == \A p \in Positions : b.cells[p] \in Digits

KeepsGivens(cells, b) ==
    \A p \in Positions : cells[p + 1] # EmptyCell => b.cells[p] = cells[p + 1]

\* The grid grid, a correct one, is a completion of the input cells.
CompletedBy(cells, grid) ==
    \A p \in Positions : cells[p + 1] # EmptyCell => cells[p + 1] = grid[p + 1]

SolveReturned(err) == sol.pc = "done" /\ sol.op = "Solve" /\ sol.err = err

\* C3: a Board returned by Solve without error has EmptyCount() = 0, holds
\* no 0, repeats no digit in a row, column or region (IsValid() is true), and
\* holds in every cell that the input had filled the digit of the input.
C3_SolvedIsCompletion ==
    SolveReturned("nil") =>
        /\ EmptyCount(Result) = 0
        /\ Full(Result)
        /\ IsValid(Result)
        /\ NoDuplicate(Result)
        /\ KeepsGivens(sol.given, Result)

\* C4: Solve without a timeout does not return NoSolution for a valid input
\* that has a completion (here: an input that SolveGrid completes).
C4_NoSolutionOnlyWhenNone ==
    (SolveReturned("ErrNoSolution") /\ sol.options.Timeout = 0)
        => ~(NoDuplicate(heap["caller"]) /\ CompletedBy(sol.given, SolveGrid))

\* C9: the caller's Board (cells, masks, empty_count) is what it was before
\* solver.New at every point of Solve, PropagateConstraints and Difficulty
\* and after they return, whatever they return.
C9_CallerBoardUnchanged == heap["caller"] = BoardOf(NilLayout, sol.given)

\* C9 happens: a call has returned after its Solver changed its own Board.
C9_Witness ==
    /\ sol.pc = "done"
    /\ sol.op \in {"Solve", "PropagateConstraints"}
    /\ heap["solver"] # heap["caller"]

\* C7: every map GenerateRegionMap returns gives each cell a region in 0..8,
\* each region exactly 9 cells, all of them orthogonally connected; NewLayout
\* accepts it and RandomJigsawLayout does not panic over an invalid layout.
C7_RegionMapWellFormed ==
    /\ jig.pc \in {"map", "done"} => WellFormed(jig.regionMap)
    /\ jig.pc = "done" => /\ jig.layout # NilLayout
                          /\ jig.layout.PosToRegion = jig.regionMap
    /\ jig.pc = "panic" => jig.err = "exceeded max retries"

\* C7 happens: a map is returned after attempts that failed and after cells
\* changed region in the balancing, and its Layout is built.
C7_Witness ==
    /\ jig.pc = "done"
    /\ jig.retries > 0
    /\ jig.regionMap # standardRegionMap

\* The grids that fill the empty cells of Board b and repeat no digit in a
\* row, column or region.
Completions(b) ==
    LET holes == {p \in Positions : b.cells[p] = EmptyCell}
    IN  {c \in {[p \in Positions |-> IF p \in holes THEN f[p] ELSE b.cells[p]] :
                    f \in [holes -> Digits]} :
            NoDuplicate([b EXCEPT !.cells = c])}

GenerateReturned == gen.pc = "done" /\ gen.err = "nil"

\* C5: a pair Generate returns under ensure_unique = true has a puzzle whose
\* filled cells hold the digits of the solution, and the solution is the one
\* and only grid that completes the puzzle without repeating a digit in a
\* row, column or region.
C5_UniquePuzzle ==
    (GenerateReturned /\ gen.options.EnsureUnique) =>
        /\ \A p \in Positions :
              gen.puzzle.cells[p] # EmptyCell => gen.puzzle.cells[p] = gen.solution.cells[p]
        /\ Full(gen.solution)
        /\ NoDuplicate(gen.solution)
        /\ Completions(gen.puzzle) = {gen.solution.cells}

\* C6: a puzzle Generate returns has ClueCount() = clue_count and lacks
\* exactly 81 - clue_count cells of the solution; Generate does not return a
\* puzzle when removeCells removed another number of cells.
C6_ExactClueCount ==
    GenerateReturned =>
        /\ ClueCount(gen.puzzle) = gen.options.ClueCount
        /\ gen.cellsRemoved = CellCount - gen.options.ClueCount
        /\ Cardinality({p \in Positions : /\ gen.puzzle.cells[p] = EmptyCell
                                          /\ gen.solution.cells[p] # EmptyCell})
              = CellCount - gen.options.ClueCount

\* C6 happens: under ensure_unique removeCells has tried every cell, removed
\* fewer than asked, and Generate is back at the top of its loop.
C6_Witness ==
    /\ gen.pc = "loop"
    /\ gen.err = "ErrDiggingFailed"
    /\ gen.options.EnsureUnique
    /\ gen.k = CellCount
    /\ gen.cellsRemoved < CellCount - gen.options.ClueCount

\* The digits of the set bits of mask.
MaskDigits(mask) == {d \in Digits : HasBit(mask, d)}

\* candidates lists the digits of the set bits of mask in ascending order.
CandidatesListed(candidates, mask) ==
    /\ \A i \in 1..Len(candidates) : candidates[i] \in MaskDigits(mask)
    /\ \A i \in 1..(Len(candidates) - 1) : candidates[i] < candidates[i + 1]
    /\ Len(candidates) = Cardinality(MaskDigits(mask))

\* The digits d for which Set(pos, d) succeeds.
LegalMoves(b, pos) == {d \in Digits : Set(b, pos, d).err = "nil"}

\* C11: on a Board reached by Set and Clear calls, GetCandidates(pos) lists
\* the digits of the set bits of GetCandidatesMask(pos) in ascending order;
\* for an empty cell pos they are the digits d for which Set(pos, d) succeeds;
\* and GetCandidatesMask is 0 for a pos outside 0..80.
C11_CandidatesAreLegalMoves ==
    last.op = "GetCandidates" =>
        /\ CandidatesListed(last.candidates, last.mask)
        /\ (isValidPosition(last.pos) /\ board.cells[last.pos] = EmptyCell) =>
              LegalMoves(board, last.pos) = {last.candidates[i] : i \in 1..Len(last.candidates)}
        /\ ~isValidPosition(last.pos) => last.mask = NoBits /\ last.candidates = <<>>

\* C11 happens: the caller asked for the candidates of an empty cell that
\* sees two digits in its units, and got the other seven.
C11_Witness ==
    /\ last.op = "GetCandidates"
    /\ isValidPosition(last.pos)
    /\ board.cells[last.pos] = EmptyCell
    /\ Len(last.candidates) = 7
    /\ \E d \in Digits : Set(board, last.pos, d).err = "ErrIllegalMove"

\* C12: after c = b.Clone(), a Set, Clear or SetForce call on c leaves the
\* cells, masks and empty count of b as they were, a call on b leaves those of
\* c as they were, and no call changes the Layout of either Board.
C12_CloneIndependent ==
    (last.c # "nil" /\ last.op \in {"Set", "Clear", "SetForce"}) =>
        LET called == RefAddr(last.on, last.c)
            other == RefAddr(IF last.on = "b" THEN "c" ELSE "b", last.c)
        IN  /\ heap[other].cells = last.pre[other].cells
            /\ heap[other].rowMasks = last.pre[other].rowMasks
            /\ heap[other].colMasks = last.pre[other].colMasks
            /\ heap[other].regionMasks = last.pre[other].regionMasks
            /\ heap[other].emptyCount = last.pre[other].emptyCount
            /\ heap[other].layout = last.pre[other].layout
            /\ heap[called].layout = last.pre[called].layout

\* C12 happens: b holds a digit, and a call on its clone c has changed c.
C12_Witness ==
    /\ last.c # "nil"
    /\ last.on = "c"
    /\ last.op \in {"Set", "SetForce"}
    /\ last.err = "nil"
    /\ heap["caller"].emptyCount < CellCount
    /\ heap[last.c] # last.pre[last.c]
    /\ heap[last.c].cells # heap["caller"].cells

\* C13: Clear(pos) with pos in 0..80 on an empty cell returns nil and leaves
\* the Board as it was, so a second Clear(pos) after a first changes nothing;
\* Clear(pos) with pos outside 0..80 returns ErrInvalidPosition and leaves the
\* Board as it was.
C13_ClearIdempotent ==
    /\ \A pos \in Positions :
          /\ board.cells[pos] = EmptyCell => Clear(board, pos) = [b |-> board, err |-> "nil"]
          /\ Clear(Clear(board, pos).b, pos) = [b |-> Clear(board, pos).b, err |-> "nil"]
    /\ \A pos \in {-2, -1, CellCount, CellCount + 1} :
          Clear(board, pos) = [b |-> board, err |-> "ErrInvalidPosition"]
    /\ last.op = "Clear" =>
          /\ ~isValidPosition(last.pos) => last.err = "ErrInvalidPosition" /\ board = last.pre
          /\ (isValidPosition(last.pos) /\ last.pre.cells[last.pos] = EmptyCell)
                => last.err = "nil" /\ board = last.pre

\* C13 happens: Clear was called on an empty cell of a Board that holds digits.
C13_Witness ==
    /\ last.op = "Clear"
    /\ isValidPosition(last.pos)
    /\ last.pre.cells[last.pos] = EmptyCell
    /\ last.pre.emptyCount < CellCount
    /\ last.err = "nil"

\* C14: IsValid() is true exactly when no digit is held by two different
\* cells of one row, one column or one region, whatever calls of SetForce, Set
\* and Clear wrote the cells, and the call leaves the Board as it was.
C14_IsValidExact ==
    /\ IsValid(board) <=> NoDuplicate(board)
    /\ last.op = "IsValid" => (last.ret <=> NoDuplicate(last.pre)) /\ board = last.pre

\* C14 happens: IsValid returned false on a Board where a digit stands twice
\* in one column and in no row or region twice.
C14_Witness ==
    /\ last.op = "IsValid"
    /\ ~last.ret
    /\ \E p, q \in Positions :
          p # q /\ board.cells[p] # EmptyCell /\ board.cells[p] = board.cells[q]
    /\ \A p, q \in Positions :
          (p # q /\ board.cells[p] # EmptyCell /\ board.cells[p] = board.cells[q])
              => /\ p % 9 = q % 9
                 /\ p \div 9 # q \div 9
                 /\ board.layout.PosToRegion[p] # board.layout.PosToRegion[q]

\* C15: for a Board B reached by Set and Clear calls, B.String() has exactly
\* 81 characters, '.' where a cell is empty and the digit elsewhere, and
\* NewFromString(B.String(), B.Layout()) succeeds with a Board whose String()
\* is the same string and whose cells, masks and empty count are those of B.
C15_StringRoundTrip ==
    /\ Len(String(board)) = CellCount
    /\ \A pos \in Positions :
          String(board)[pos + 1] =
              IF board.cells[pos] = EmptyCell THEN dotChar ELSE zeroChar + board.cells[pos]
    /\ last.op = "String" =>
          /\ last.s = String(board)
          /\ last.err = "nil"
          /\ last.parsed # NilBoard
          /\ String(last.parsed) = last.s
          /\ last.parsed.cells = board.cells
          /\ last.parsed.rowMasks = board.rowMasks
          /\ last.parsed.colMasks = board.colMasks
          /\ last.parsed.regionMasks = board.regionMasks
          /\ last.parsed.emptyCount = board.emptyCount
          /\ last.parsed.layout = board.layout

\* C15 happens: a Board that holds three digits was written and read back.
C15_Witness ==
    /\ last.op = "String"
    /\ board.emptyCount = CellCount - 3
    /\ \E pos \in Positions : last.s[pos + 1] = zeroChar + 2

\* C16: when a call of backtrack has found the context done at its entry,
\* Solve returns ErrTimeout, not ErrNoSolution.  (The context is made done
\* only while a call of backtrack is about to be entered, so a done context
\* at the return of Solve has been observed at an entry.)
C16_TimeoutReturned ==
    (sol.pc = "done" /\ sol.op = "Solve" /\ sol.ctx = "done") => sol.err = "ErrTimeout"

C18_SeedReproduces ==
    (GenerateReturned /\ last.op = "Generate") =>
        /\ gen.puzzle.cells = last.puzzle.cells
        /\ gen.solution.cells = last.solution.cells

\* The digits that no other cell of a unit of p holds.
FreeDigits(cells, layout, p) ==
    Digits \ {cells[q] : q \in {r \in Positions : r # p /\ SameUnit(layout, p, r)}}

EmptyCells(cells) == {p \in Positions : cells[p] = EmptyCell}

LowestOf(S) == CHOOSE p \in S : \A q \in S : p <= q

\* The empty cells with the fewest free digits.
FewestCells(cells, layout) ==
    {p \in EmptyCells(cells) :
        \A q \in EmptyCells(cells) :
            Cardinality(FreeDigits(cells, layout, p)) <= Cardinality(FreeDigits(cells, layout, q))}

\* The empty cells with at most one free digit.
ForcedCells(cells, layout) ==
    {p \in EmptyCells(cells) : Cardinality(FreeDigits(cells, layout, p)) <= 1}

\* The branch cell: the lowest of the cells with the fewest free digits, or,
\* when early, the lowest cell with at most one free digit if there is one.
BranchCell(cells, layout, early) ==
    IF early /\ ForcedCells(cells, layout) # {}
    THEN LowestOf(ForcedCells(cells, layout))
    ELSE LowestOf(FewestCells(cells, layout))

\* The recurrence d: 0 on a full grid and at a branch cell without free
\* digits, else the sum over the free digits v of the branch cell c of
\* 1 + d(cells with v at c).
RECURSIVE Recurrence(_, _, _)
RECURSIVE RecurrenceSum(_, _, _, _, _)
RecurrenceSum(cells, layout, early, c, vs) ==
    IF vs = {} THEN 0
    ELSE LET v == CHOOSE x \in vs : TRUE
         IN  1 + Recurrence([cells EXCEPT ![c] = v], layout, early)
               + RecurrenceSum(cells, layout, early, c, vs \ {v})

Recurrence(cells, layout, early) ==
    IF EmptyCells(cells) = {} THEN 0
    ELSE RecurrenceSum(cells, layout, early, BranchCell(cells, layout, early),
                       FreeDigits(cells, layout, BranchCell(cells, layout, early)))

DifficultyReturned == sol.pc = "done" /\ sol.op = "Difficulty"

Entry == BoardOf(NilLayout, sol.given)

RootPropagated(p) == PropagateConstraints(p.b).b

RootEntry == RootPropagated(PropagateConstraints(Entry))

\* C20: when the call of backtrack made after the first SetForce(pos, val) of
\* the outermost call has returned false, Clear(pos) leaves the Solver's Board
\* (cells, masks, empty count) as it was just before that SetForce, the cells
\* that PropagateConstraints filled inside the failed branch included.
C20_FailedBranchUndone ==
    (/\ sol.op = "Solve"
     /\ sol.pc = "return"
     /\ ~sol.ret
     /\ Len(sol.stack) = 1
     /\ sol.stack[1].i = 1
     /\ Holes(sol.given) < CellCount)
        => Clear(heap[sol.Board], sol.stack[1].pos).b = RootEntry

\* C21: every SetForce of the Solver is legal when it executes, so in every
\* state of a Solver its Board has exact masks and an empty count equal to the
\* number of its empty cells, also when the Board being propagated is
\* contradictory.
C21_SolverBoardInvariant ==
    (sol.pc \notin {"idle", "new"} /\ sol.Board # "nil") =>
        /\ MasksExact(heap[sol.Board])
        /\ CountExact(heap[sol.Board])

\* The fewest free digits an empty cell of cells has.
FewestFree(cells, layout) ==
    CHOOSE k \in 0..9 :
        /\ \E p \in EmptyCells(cells) : Cardinality(FreeDigits(cells, layout, p)) = k
        /\ \A q \in EmptyCells(cells) : Cardinality(FreeDigits(cells, layout, q)) >= k

\* The lowest of the empty cells that have k free digits.
LowestWith(cells, layout, k) ==
    LowestOf({p \in EmptyCells(cells) : Cardinality(FreeDigits(cells, layout, p)) = k})

\* The grids that put a free digit into the empty cell c of cells.
Extended(cells, layout, c) ==
    {[cells EXCEPT ![c] = v] : v \in FreeDigits(cells, layout, c)}

\* One more cell filled, in every way, in each grid of grids that has an
\* empty cell: the lowest of its cells with the fewest free digits.
ExtendedAll(grids, layout) ==
    UNION {IF EmptyCells(g) = {} THEN {g}
           ELSE Extended(g, layout, LowestWith(g, layout, FewestFree(g, layout))) : g \in grids}

RECURSIVE ExtendedTimes(_, _, _)
ExtendedTimes(grids, layout, n) ==
    IF grids = {} \/ n = 0 THEN grids
    ELSE IF n = 1 THEN ExtendedAll(grids, layout)
    ELSE ExtendedTimes(ExtendedTimes(grids, layout, n \div 2), layout, n - n \div 2)

\* Every grid that fills the empty cells of cells and repeats no digit in a
\* row, column or region.
CompletionsFrom(cells, layout) ==
    ExtendedTimes({cells}, layout, Cardinality(EmptyCells(cells)))

PropagateReturned == sol.pc = "done" /\ sol.op = "PropagateConstraints"

\* b keeps every completion in completions: each cell b has filled holds the
\* digit the completion has there.
KeepsCompletions(b, completions) ==
    \A grid \in completions :
        \A p \in Positions : b.cells[p] # EmptyCell => b.cells[p] = grid[p]

PropagationSound(b, err, completions) ==
    /\ KeepsCompletions(b, completions)
    /\ err = "ErrNoSolution" => completions = {}

\* C22: PropagateConstraints on a valid Board keeps every completion of the
\* Board (it places only digits that every completion has), and it returns
\* NoSolution only if the Board had no completion. Every completion is
\* looked at for an input of at most MaxCompletionHoles empty cells, and the
\* completion SolveGrid for every input it completes.
C22_PropagationSound ==
    /\ (PropagateReturned /\ NoDuplicate(Entry) /\ Holes(sol.given) <= MaxCompletionHoles) =>
           PropagationSound(Result, sol.err, CompletionsFrom(Entry.cells, Entry.layout))
    /\ (PropagateReturned /\ NoDuplicate(Entry) /\ CompletedBy(sol.given, SolveGrid)) =>
           PropagationSound(Result, sol.err, {[p \in Positions |-> SolveGrid[p + 1]]})

\* C22 happens: PropagateConstraints has placed digits in a valid Board and
\* has left cells empty that the completions fill differently.
C22_Witness ==
    /\ PropagateReturned
    /\ sol.err = "nil"
    /\ NoDuplicate(Entry)
    /\ Holes(sol.given) <= MaxCompletionHoles
    /\ EmptyCount(Result) < Holes(sol.given)
    /\ EmptyCount(Result) > 0

\* The empty cells of the unit unit in which digit d is free.
PlacesFor(cells, layout, unit, d) ==
    {p \in unit : cells[p] = EmptyCell /\ d \in FreeDigits(cells, layout, p)}

AllUnits(layout) ==
    {RowOf(r) : r \in 0..8} \cup {ColOf(c) : c \in 0..8} \cup {RegionOf(layout, g) : g \in 0..8}

\* Neither rule of PropagateConstraints applies to b and no cell of b is
\* without a candidate.
Fixpoint(b) ==
    /\ \A p \in EmptyCells(b.cells) : Cardinality(FreeDigits(b.cells, b.layout, p)) >= 2
    /\ \A unit \in AllUnits(b.layout) :
          \A d \in Digits : Cardinality(PlacesFor(b.cells, b.layout, unit, d)) # 1

\* C23: a Board that PropagateConstraints returns without error is a fixpoint
\* of both rules and has no cell without a candidate, and the loop of
\* PropagateConstraints is left before its 81 * 81 turns are used up.
C23_PropagationFixpoint ==
    PropagateReturned =>
        /\ sol.err = "nil" => Fixpoint(Result)
        /\ PropagateConstraints(heap["caller"]).done

\* C23 happens: PropagateConstraints has returned without error a Board it
\* has filled cells of and that has empty cells left.
C23_Witness ==
    /\ PropagateReturned
    /\ sol.err = "nil"
    /\ \E p, q \in Positions :
          /\ Entry.cells[p] = EmptyCell
          /\ Result.cells[p] # EmptyCell
          /\ Result.cells[q] = EmptyCell

MRVReturns == sol.pc = "done" /\ sol.op = "FindMRVCell"

\* The sequence candidates lists the digits of the set free in rising order.
Ascending(candidates, free) ==
    /\ {candidates[i] : i \in 1..Len(candidates)} = free
    /\ \A i \in 1..Len(candidates) - 1 : candidates[i] < candidates[i + 1]

\* FindMRVCell has returned the branch cell of the Board and its candidates.
ReturnsBranchCell(early) ==
    /\ last.pos = BranchCell(last.pre.cells, last.pre.layout, early)
    /\ Ascending(last.candidates, FreeDigits(last.pre.cells, last.pre.layout, last.pos))

C25_UniqueIffOneCompletion ==
    (GenerateReturned /\ gen.options.EnsureUnique) =>
        /\ hasUniqueSolution(gen.puzzle) <=> Cardinality(Completions(gen.puzzle)) = 1
        /\ countSolutions(Clone(gen.puzzle)) =
              IF Cardinality(Completions(gen.puzzle)) < 2
              THEN Cardinality(Completions(gen.puzzle)) ELSE 2

Seeded == sol.pc = "seeded"

\* The cells of the 3 x 3 box in box row i and box column j.
BoxCells(i, j) == {p \in Positions : p \div 27 = i /\ (p % 9) \div 3 = j}

FilledCells(b) == {p \in Positions : b.cells[p] # EmptyCell}

\* The cells filled are those of the boxes (0, cols[1]), (1, cols[2]) and
\* (2, cols[3]), and each box holds every digit.
SeededBoxes(b, cols) ==
    /\ FilledCells(b) = UNION {BoxCells(i, cols[i + 1]) : i \in 0..2}
    /\ \A i \in 0..2 : {b.cells[p] : p \in BoxCells(i, cols[i + 1])} = Digits

\* Box columns of which no two are the same.
BoxColumns == {cols \in [1..3 -> 0..2] : \A i, j \in 1..3 : i # j => cols[i] # cols[j]}

\* C26: Solve seeds its Board only when the Board is empty and its layout is
\* of the standard kind; the seeded Board has 27 filled cells, those of three
\* boxes that share no row, column or region, each box holding the digits
\* 1..9 once, and it is valid with exact masks and count; a Board with a
\* jigsaw layout, and a Board that is not empty, are left as they were.
C26_SeedThreeBoxes ==
    Seeded =>
        IF FilledCells(heap["caller"]) = {} /\ heap["caller"].layout.Type = "standard"
        THEN /\ Cardinality(FilledCells(Result)) = 27
             /\ \E cols \in BoxColumns : SeededBoxes(Result, cols)
             /\ IsValid(Result)
             /\ NoDuplicate(Result)
             /\ MasksExact(Result)
             /\ CountExact(Result)
        ELSE Result = heap["caller"]

\* C26 happens: an empty standard Board has been seeded at random, the box of
\* the first box row not being the first one.
C26_Witness ==
    /\ Seeded
    /\ sol.options.Randomize
    /\ Cardinality(FilledCells(Result)) = 27
    /\ Result.cells[0] = EmptyCell
    /\ \E p \in Positions :
          /\ Result.cells[p] \in Digits
          /\ Result.cells[p] # (3 * ((p \div 9) % 3)) + ((p % 9) % 3) + 1

InBFS == jig.pc = "bfs"

BFSEnded == jig.pc = "bfs" /\ jig.head >= Len(jig.queue)

\* The cells that assigned gives region r.
CellsOf(assigned, r) == {p \in Positions : assigned[p] = r}

\* The queue holds every cell that has a region, once, with its region.
QueueExact(assigned, queue) ==
    /\ \A i \in 1..Len(queue) : assigned[queue[i].pos] = queue[i].region
    /\ \A i, k \in 1..Len(queue) : i # k => queue[i].pos # queue[k].pos
    /\ \A p \in Positions : assigned[p] # -1 => \E i \in 1..Len(queue) : queue[i].pos = p

\* C27: in Phase 1 each cell is enqueued at most once, with its region, the
\* nine regions are not empty and are orthogonally connected, and the head
\* of the queue is within it; when the BFS ends every cell has a region in
\* 0..8 and has been enqueued exactly once.
C27_PhaseOnePartition ==
    /\ InBFS =>
          /\ jig.head <= Len(jig.queue)
          /\ QueueExact(jig.assigned, jig.queue)
          /\ \A r \in Units : /\ CellsOf(jig.assigned, r) # {}
                              /\ Connected(CellsOf(jig.assigned, r))
    /\ BFSEnded =>
          /\ \A p \in Positions : jig.assigned[p] \in Units
          /\ Len(jig.queue) = totalCells

\* C27 happens: the BFS has ended with regions of unequal sizes.
C27_Witness ==
    /\ BFSEnded
    /\ \E r \in Units : Cardinality(CellsOf(jig.assigned, r)) > regionSize

\* regionSizes counts the cells of each region, 81 in all.
SizesExact(assigned, regionSizes) ==
    /\ \A r \in Units : regionSizes[r] = Cardinality(CellsOf(assigned, r))
    /\ regionSizes[0] + regionSizes[1] + regionSizes[2] + regionSizes[3] + regionSizes[4]
         + regionSizes[5] + regionSizes[6] + regionSizes[7] + regionSizes[8] = totalCells

\* The step from before to after moves the one cell pos out of a region of
\* more than 9 cells into a region of fewer than 9 cells that a neighbor of
\* pos is in, and both regions are orthogonally connected afterwards.
TransfersCell(before, after, pos) ==
    /\ \A p \in Positions : p # pos => after[p] = before[p]
    /\ Cardinality(CellsOf(before, before[pos])) > regionSize
    /\ Cardinality(CellsOf(before, after[pos])) < regionSize
    /\ \E q \in Positions : Adjacent(pos, q) /\ before[q] = after[pos]
    /\ Connected(CellsOf(after, before[pos]))
    /\ Connected(CellsOf(after, after[pos]))

\* A turn of balanceRegions that has applied a transfer.
Transfers == jig.pc = "balance" /\ jig'.pc = "balance"

BalanceStep ==
    /\ Transfers =>
          \E pos \in Positions : /\ jig'.assigned[pos] # jig.assigned[pos]
                                 /\ TransfersCell(jig.assigned, jig'.assigned, pos)
    /\ jig'.pc = "balance" => SizesExact(jig'.assigned, jig'.regionSizes)

\* C28: every transfer of Phase 2 moves one cell from a region of more than
\* 9 cells to an orthogonally adjacent region of fewer than 9 cells and
\* leaves both regions orthogonally connected; at the top of every turn
\* regionSizes[r] is the number of cells of region r and the sizes sum to 81.
C28_TransfersKeepRegions == [][BalanceStep]_vars

\* C28 happens: a transfer has been applied and balancing goes on.
C28_Witness ==
    /\ jig.pc = "balance"
    /\ jig.iter > 0
    /\ \E r \in Units : jig.regionSizes[r] # regionSize

\* |size - 9|
OffSize(size) == IF size > regionSize THEN size - regionSize ELSE regionSize - size

\* The sum over the regions of |size - 9|.
Imbalance(regionSizes) ==
    OffSize(regionSizes[0]) + OffSize(regionSizes[1]) + OffSize(regionSizes[2])
      + OffSize(regionSizes[3]) + OffSize(regionSizes[4]) + OffSize(regionSizes[5])
      + OffSize(regionSizes[6]) + OffSize(regionSizes[7]) + OffSize(regionSizes[8])

BudgetStep ==
    /\ Transfers => Imbalance(jig'.regionSizes) = Imbalance(jig.regionSizes) - 2
    /\ jig'.pc = "balance" => jig'.iter <= (totalCells - regionSize) \div 2
    /\ jig.pc = "balance" => jig.iter < maxIter

\* C30: a turn of balanceRegions never starts with the 810 turns used up,
\* each transfer applied lowers the sum over the regions of |size - 9| by
\* exactly 2, and no attempt applies more than 36 transfers.
C30_BudgetNeverExhausted == [][BudgetStep]_vars

\* C30 happens: balanceRegions is about to return the map after transfers.
C30_Witness ==
    /\ jig.pc = "balance"
    /\ jig.iter > 0
    /\ \A r \in Units : jig.regionSizes[r] = regionSize

Searching == sol.op = "Solve" /\ sol.pc \in {"backtrack", "return"}

\* The calls of backtrack that are open are no more than the cells the
\* input had empty, and each of them has filled a cell of its own: the
\* empty cells left and the open calls are together no more than the cells
\* the input had empty.
DepthBounded ==
    Searching =>
        /\ Len(sol.stack) <= Holes(sol.given)
        /\ Len(sol.stack) <= CellCount
        /\ sol.pc = "backtrack" =>
              Cardinality(EmptyCells(Result.cells)) + Len(sol.stack) <= Holes(sol.given)
        /\ \A i, k \in 1..Len(sol.stack) : i # k => sol.stack[i].pos # sol.stack[k].pos
        /\ \A i \in 1..Len(sol.stack) : sol.given[sol.stack[i].pos + 1] = EmptyCell

\* C29: Solve without a timeout returns for every input, and the calls of
\* backtrack that are open never outnumber the cells that were empty when
\* the search began, each call being entered with fewer empty cells than its
\* caller.
C29_SolveTerminates ==
    /\ []DepthBounded
    /\ (sol.op = "Solve" /\ sol.options.Timeout = 0) ~> (sol.pc = "done")

\* C29 happens: a Solve without a timeout has returned after a search that
\* put a call of backtrack back to its loop.
C29_Witness ==
    /\ sol.op = "Solve"
    /\ sol.options.Timeout = 0
    /\ sol.pc = "backtrack"
    /\ \E i \in 1..Len(sol.stack) : sol.stack[i].i > 1
    /\ Len(sol.stack) >= 2

====
